---- MODULE Spec2Model ----
(***************************************************************************)
(* Model of the Snyk export client (src/snyk_export.py) and of the        *)
(* orchestration loops that drive it (src/run_export.py, src/menu.py).    *)
(*                                                                         *)
(* Strings whose letter case matters are sequences of one-character        *)
(* strings, so that str.lower() is a real conversion.  HTTP exchanges are  *)
(* inputs: every request made by the code consumes one response record    *)
(* chosen by the environment.                                              *)
(***************************************************************************)
EXTENDS Integers, Sequences, FiniteSets, TLC

VARIABLES
    wf,               \* the orchestrator that is running
    datasets,         \* the dataset list it iterates over
    export_format,    \* "csv" or "json"
    pc,               \* position of the orchestrator
    dsIdx,            \* index of the current dataset in Datasets(wf)
    export_id,        \* id of the job of the current dataset
    attempts,         \* the loop counter `attempts` (attempt-counted loops)
    elapsed,          \* time.time() - start (wall-clock loops)
    export_status,    \* status string classified by the last poll
    lastQuery,        \* what the last status query did
    job,              \* history of the current job (polls, terminal status seen ...)
    outcomes,         \* how each dataset processed so far ended
    downloaded_files, \* the orchestrator's list of collected artifacts
    disk,             \* files on disk: path -> size
    lastDownload,     \* what the last download call did
    enriched,         \* the paths handed to enrich_export_files so far
    merge_calls,      \* the calls of the merger made by the orchestrator
    wf_return,        \* what the orchestrator returned to its caller
    dl_in,            \* retriever specifications: the call's arguments and responses
    dl_out,           \* retriever specifications: what the call did
    project_cache,    \* self._project_cache: (org id, project id) -> project
    policy_ignore_cache, \* self._policy_ignore_cache: org id -> ignore map
    fs                \* the files the enricher and the merger work on: path -> file

vars == <<wf, datasets, export_format, pc, dsIdx, export_id, attempts, elapsed,
          export_status, lastQuery, job, outcomes, downloaded_files, disk, lastDownload,
          enriched, merge_calls, wf_return, dl_in, dl_out, project_cache,
          policy_ignore_cache, fs>>

flowVars == <<wf, datasets, export_format, pc, dsIdx, export_id, attempts, elapsed,
              export_status, lastQuery, job, outcomes, downloaded_files, disk,
              lastDownload, enriched, merge_calls, wf_return>>

dlVars == <<dl_in, dl_out>>

clientVars == <<project_cache, policy_ignore_cache, fs>>

\* a fresh client (lines 57-58) and no file of interest
ClientIdle == project_cache = <<>> /\ policy_ignore_cache = <<>> /\ fs = <<>>

----------------------------------------------------------------------------
(* Strings and str.lower()                                                 *)

UpperChars == <<"A", "C", "D", "E", "F", "I", "L", "M", "N", "O", "P", "R", "S", "T">>
LowerChars == <<"a", "c", "d", "e", "f", "i", "l", "m", "n", "o", "p", "r", "s", "t">>

LowerChar(c) ==
    IF \E i \in DOMAIN UpperChars : UpperChars[i] = c
    THEN LowerChars[CHOOSE i \in DOMAIN UpperChars : UpperChars[i] = c]
    ELSE c

\* str.lower()
Lower(s) == [i \in DOMAIN s |-> LowerChar(s[i])]

\* a key that is missing from a dict; dict.get(key, default)
Absent == <<"<absent>">>
Get(value, default) == IF value = Absent THEN default ELSE value

s_complete  == <<"c", "o", "m", "p", "l", "e", "t", "e">>
s_finished  == <<"f", "i", "n", "i", "s", "h", "e", "d">>
s_failed    == <<"f", "a", "i", "l", "e", "d">>
s_cancelled == <<"c", "a", "n", "c", "e", "l", "l", "e", "d">>
s_started   == <<"s", "t", "a", "r", "t", "e", "d">>
s_pending   == <<"p", "e", "n", "d", "i", "n", "g">>
s_error     == <<"e", "r", "r", "o", "r">>
s_unknown   == <<"u", "n", "k", "n", "o", "w", "n">>
s_empty     == <<>>

S_COMPLETE  == <<"C", "O", "M", "P", "L", "E", "T", "E">>
S_Finished  == <<"F", "i", "n", "i", "s", "h", "e", "d">>
S_FAILED    == <<"F", "A", "I", "L", "E", "D">>
S_Cancelled == <<"C", "a", "n", "c", "e", "l", "l", "e", "d">>
S_STARTED   == <<"S", "T", "A", "R", "T", "E", "D">>

\* the status strings the remote service may answer with
StatusInputs ==
    { s_complete, s_finished, s_failed, s_cancelled, s_started, s_pending, s_error,
      S_COMPLETE, S_Finished, S_FAILED, S_Cancelled, S_STARTED }

----------------------------------------------------------------------------
(* File names: sequences of tokens, "/" and "." being the separators       *)

\* index of the last occurrence of token t in p, 0 when there is none
LastIndexOf(p, t) ==
    IF \E i \in DOMAIN p : p[i] = t
    THEN CHOOSE i \in DOMAIN p : p[i] = t /\ \A j \in DOMAIN p : p[j] = t => j <= i
    ELSE 0

\* os.path.basename
Basename(p) == SubSeq(p, LastIndexOf(p, "/") + 1, Len(p))

\* os.path.splitext: the extension starts at the last dot, unless only dots precede it
SplitExt(name) ==
    LET i == LastIndexOf(name, ".")
    IN  IF i > 0 /\ \E j \in 1..(i - 1) : name[j] # "."
        THEN [base |-> SubSeq(name, 1, i - 1), ext |-> SubSeq(name, i, Len(name))]
        ELSE [base |-> name, ext |-> <<>>]

\* os.path.join(output_dir, name)
PathJoin(dir, name) == dir \o <<"/">> \o name

\* the part suffix numbered from zero
PartSuffix_ZeroBased(idx, n) == IF n > 1 THEN <<"_part", ToString(idx - 1)>> ELSE <<>>

\* f"_part{idx}" if len(result_urls) > 1 else ""
PartSuffix(idx, n) == IF n > 1 THEN <<"_part", ToString(idx)>> ELSE <<>>

\* os.path.join("exports", folder_timestamp)
OutputDir(ts) == <<"exports", "/", ts>>

\* disk after open(path, 'wb') and the writes of `size` bytes
WriteFile(d, path, size) ==
    [q \in (DOMAIN d) \cup {path} |-> IF q = path THEN size ELSE d[q]]

NoFiles == [q \in {} |-> 0]

----------------------------------------------------------------------------
(* HTTP exchanges                                                          *)

\* kind "ok": a 2xx answer; "http": raise_for_status() raises HTTPError with `code`;
\* "conn": requests.get raises a ConnectionError/Timeout before any answer;
\* "broken": a 2xx answer whose body stream raises after `size` bytes
\* "ioerror": a 2xx answer, but open() of the local file raises OSError
OkResp(size) == [kind |-> "ok", code |-> 200, size |-> size]
HttpResp(code) == [kind |-> "http", code |-> code, size |-> 0]
ConnResp == [kind |-> "conn", code |-> 0, size |-> 0]
BrokenResp(size) == [kind |-> "broken", code |-> 200, size |-> size]
IoErrorResp == [kind |-> "ioerror", code |-> 200, size |-> 0]

\* the exception classes the code distinguishes
IsRequestException(err) ==
    err \in {"HTTPError", "ConnectionError", "ChunkedEncodingError", "RequestException"}

----------------------------------------------------------------------------
(* Status payloads: {"data": {"id", "status"?, "attributes": {"status"?,   *)
(* "results"?, "download_url"?}, "relationships"?}}                        *)

\* URLs are pairs <<text, k>>; an item without a "url" key; a missing download_url
PartUrl(k) == <<"part-url", k>>
NoUrl == <<"<no url key>", 0>>
NoDownloadUrl == <<"", 0>>
DirectUrl == <<"download_url", 0>>

Payload(has_data, id, attr_status, top_status, results, download_url, rel_org) ==
    [has_data |-> has_data, id |-> id, attr_status |-> attr_status,
     top_status |-> top_status, results |-> results, download_url |-> download_url,
     rel_org |-> rel_org]

\* a JSON document without a "data" key
NoDataPayload == Payload(FALSE, "", Absent, Absent, <<>>, NoDownloadUrl, "")

\* src/snyk_export.py:257-263
SynthesizedStarted == Payload(TRUE, "", s_started, Absent, <<>>, NoDownloadUrl, "")

----------------------------------------------------------------------------
(* Status queries                                                          *)

StatusOk(payload) == [kind |-> "ok", code |-> 200, payload |-> payload]
StatusHttp(code) == [kind |-> "http", code |-> code, payload |-> NoDataPayload]
StatusConn == [kind |-> "conn", code |-> 0, payload |-> NoDataPayload]

QueryResult(raised, error, requests, data, synthesized) ==
    [raised |-> raised, error |-> error, requests |-> requests, data |-> data,
     synthesized |-> synthesized]

\* src/snyk_export.py:264-272: the status under data.attributes is lower-cased
NormalizeStatus(data) ==
    IF data.has_data /\ data.attr_status # Absent
    THEN [data EXCEPT !.attr_status = Lower(@)]
    ELSE data

\* get_group_export_status with the synthesized status missing: both failures raise
GetGroupExportStatus_RaiseWhenBothFail(group_id, eid, primary, legacy) ==
    IF group_id = "" \/ eid = ""
    THEN QueryResult(TRUE, "ValueError", <<>>, NoDataPayload, FALSE)
    ELSE CASE primary.kind = "ok" ->
                QueryResult(FALSE, "", <<"primary">>, NormalizeStatus(primary.payload), FALSE)
           [] primary.kind = "conn" ->
                QueryResult(TRUE, "ConnectionError", <<"primary">>, NoDataPayload, FALSE)
           [] OTHER ->
                CASE legacy.kind = "ok" ->
                       QueryResult(FALSE, "", <<"primary", "legacy">>,
                                   NormalizeStatus(legacy.payload), FALSE)
                  [] legacy.kind = "conn" ->
                       QueryResult(TRUE, "ConnectionError", <<"primary", "legacy">>,
                                   NoDataPayload, FALSE)
                  [] OTHER ->
                       QueryResult(TRUE, "HTTPError", <<"primary", "legacy">>,
                                   NoDataPayload, FALSE)

\* SnykExportAPI.get_group_export_status(group_id, export_id); `primary` and `legacy`
\* are the answers of the two endpoints (legacy is consumed only when requested)
GetGroupExportStatus(group_id, eid, primary, legacy) ==
    IF group_id = "" \/ eid = ""
    THEN QueryResult(TRUE, "ValueError", <<>>, NoDataPayload, FALSE)
    ELSE CASE primary.kind = "ok" ->
                QueryResult(FALSE, "", <<"primary">>, NormalizeStatus(primary.payload), FALSE)
           [] primary.kind = "conn" ->
                \* not an HTTPError: propagates
                QueryResult(TRUE, "ConnectionError", <<"primary">>, NoDataPayload, FALSE)
           [] OTHER ->
                CASE legacy.kind = "ok" ->
                       QueryResult(FALSE, "", <<"primary", "legacy">>,
                                   NormalizeStatus(legacy.payload), FALSE)
                  [] legacy.kind = "conn" ->
                       QueryResult(TRUE, "ConnectionError", <<"primary", "legacy">>,
                                   NoDataPayload, FALSE)
                  [] OTHER ->
                       QueryResult(FALSE, "", <<"primary", "legacy">>,
                                   NormalizeStatus(SynthesizedStarted), TRUE)

\* a fallback on every HTTP error
FallbackCodes_All == {404, 400, 401, 500}

\* the status codes on which the organization endpoints fall back (lines 871, 947)
FallbackCodes == {404, 400}

\* SnykExportAPI.get_export_status(export_id, org_id, dataset)
GetExportStatus(self_org_id, eid, org_id_arg, primary, legacy) ==
    LET org_id == IF org_id_arg # "" THEN org_id_arg ELSE self_org_id
        Validate(reqs, payload) ==
            IF payload.has_data
            THEN QueryResult(FALSE, "", reqs, payload, FALSE)
            ELSE QueryResult(TRUE, "ValueError", reqs, NoDataPayload, FALSE)
    IN  IF org_id = ""
        THEN QueryResult(TRUE, "ValueError", <<>>, NoDataPayload, FALSE)
        ELSE CASE primary.kind = "ok" -> Validate(<<"primary">>, primary.payload)
               [] primary.kind = "conn" ->
                    QueryResult(TRUE, "RequestException", <<"primary">>, NoDataPayload, FALSE)
               [] OTHER ->
                    IF primary.code \in FallbackCodes
                    THEN IF legacy.kind = "ok"
                         THEN Validate(<<"primary", "legacy">>, legacy.payload)
                         ELSE QueryResult(TRUE, "RequestException", <<"primary", "legacy">>,
                                          NoDataPayload, FALSE)
                    ELSE QueryResult(TRUE, "RequestException", <<"primary">>,
                                     NoDataPayload, FALSE)

----------------------------------------------------------------------------
(* Job submitter                                                           *)

SubmitResult(raised, error, requests, data) ==
    [raised |-> raised, error |-> error, requests |-> requests, data |-> data]

\* SnykExportAPI.start_group_export: no legacy path, the HTTP error is re-raised
StartGroupExport(group_id, resp) ==
    IF group_id = "" THEN SubmitResult(TRUE, "ValueError", <<>>, NoDataPayload)
    ELSE CASE resp.kind = "ok" -> SubmitResult(FALSE, "", <<"primary">>, resp.payload)
           [] resp.kind = "conn" ->
                SubmitResult(TRUE, "ConnectionError", <<"primary">>, NoDataPayload)
           [] OTHER -> SubmitResult(TRUE, "HTTPError", <<"primary">>, NoDataPayload)

\* SnykExportAPI.start_export: one legacy submit on 404/400; every RequestException
\* is re-raised as Exception("Error starting export: ...")
StartExport(self_org_id, org_id_arg, primary, legacy) ==
    LET org_id == IF org_id_arg # "" THEN org_id_arg ELSE self_org_id
    IN  IF org_id = "" THEN SubmitResult(TRUE, "ValueError", <<>>, NoDataPayload)
        ELSE CASE primary.kind = "ok" ->
                    SubmitResult(FALSE, "", <<"primary">>, primary.payload)
               [] primary.kind = "conn" ->
                    SubmitResult(TRUE, "Exception", <<"primary">>, NoDataPayload)
               [] OTHER ->
                    IF primary.code \in FallbackCodes
                    THEN IF legacy.kind = "ok"
                         THEN SubmitResult(FALSE, "", <<"primary", "legacy">>, legacy.payload)
                         ELSE SubmitResult(TRUE, "Exception", <<"primary", "legacy">>,
                                           NoDataPayload)
                    ELSE SubmitResult(TRUE, "Exception", <<"primary">>, NoDataPayload)

----------------------------------------------------------------------------
(* Artifact retriever of the group flow: download_group_export             *)

READY == {s_complete, s_finished}

GroupDownloadEndpoint == <<"groups/{group_id}/export/{export_id}/download", 0>>
GroupJobsDownloadEndpoint == <<"groups/{group_id}/jobs/export/{export_id}/download", 0>>

DownloadResult(raised, error, saved_files, requests, d) ==
    [raised |-> raised, error |-> error, saved_files |-> saved_files,
     requests |-> requests, disk |-> d]

Request(part, endpoint, url) == [part |-> part, endpoint |-> endpoint, url |-> url]

\* lines 287-297: the URLs of the items that carry one, else the single endpoint URL
ResultUrls(attributes) ==
    LET listed == SelectSeq(attributes.results, LAMBDA u : u # NoUrl)
    IN  IF listed # <<>> THEN listed
        ELSE <<IF attributes.download_url # NoDownloadUrl THEN attributes.download_url
               ELSE GroupDownloadEndpoint>>

\* line 333 with the condition dropped: the jobs path is tried for every part
FallbackAllowed_Always(n) == TRUE

\* line 333: `if len(result_urls) == 1`
FallbackAllowed(n) == n = 1

\* lines 327-328, 342-343 with the test on the wrong side
EmptyFileRaises_Never(size) == size < 0

\* lines 327-328, 342-343: `if os.path.getsize(out_path) == 0: raise ValueError`
EmptyFileRaises(size) == size = 0

\* one streamed GET written to out_path: lines 315-330 (and 336-345 for the jobs path)
StreamToFile(acc, out_path, resp) ==
    CASE resp.kind = "ok" ->
           IF EmptyFileRaises(resp.size)
           THEN [acc EXCEPT !.raised = TRUE, !.error = "ValueError",
                            !.disk = WriteFile(acc.disk, out_path, resp.size)]
           ELSE [acc EXCEPT !.saved_files = Append(@, out_path),
                            !.disk = WriteFile(acc.disk, out_path, resp.size)]
      [] resp.kind = "broken" ->
           [acc EXCEPT !.raised = TRUE, !.error = "ChunkedEncodingError",
                       !.disk = WriteFile(acc.disk, out_path, resp.size)]
      [] resp.kind = "ioerror" -> [acc EXCEPT !.raised = TRUE, !.error = "OSError"]
      [] resp.kind = "conn" -> [acc EXCEPT !.raised = TRUE, !.error = "ConnectionError"]
      [] OTHER -> [acc EXCEPT !.raised = TRUE, !.error = "HTTPError"]

\* lines 331-347 with the failed part skipped instead of raised
OnPartHttpError_Skip(acc, idx, n, out_path, legacy) ==
    IF FallbackAllowed(n)
    THEN StreamToFile([acc EXCEPT !.requests =
                                     Append(@, Request(idx, "legacy", GroupJobsDownloadEndpoint))],
                      out_path, legacy)
    ELSE acc

\* lines 331-347: the handler of the HTTPError of a part
OnPartHttpError(acc, idx, n, out_path, legacy) ==
    IF FallbackAllowed(n)
    THEN StreamToFile([acc EXCEPT !.requests =
                                     Append(@, Request(idx, "legacy", GroupJobsDownloadEndpoint))],
                      out_path, legacy)
    ELSE [acc EXCEPT !.raised = TRUE, !.error = "HTTPError"]

\* lines 309-347: the body of `for idx, url in enumerate(result_urls, start=1)`
DownloadPart(acc, idx, urls, output_file, output_dir, resp, legacy) ==
    LET n == Len(urls)
        name == SplitExt(Basename(output_file))
        out_path == PathJoin(output_dir, name.base \o PartSuffix(idx, n) \o name.ext)
        asked == [acc EXCEPT !.requests = Append(@, Request(idx, "primary", urls[idx]))]
    IN  IF resp.kind = "http"
        THEN OnPartHttpError(asked, idx, n, out_path, legacy)
        ELSE StreamToFile(asked, out_path, resp)

RECURSIVE DownloadParts(_, _, _, _, _, _, _)
DownloadParts(acc, idx, urls, output_file, output_dir, resps, legacy) ==
    IF idx > Len(urls) \/ acc.raised THEN acc
    ELSE DownloadParts(DownloadPart(acc, idx, urls, output_file, output_dir, resps[idx], legacy),
                       idx + 1, urls, output_file, output_dir, resps, legacy)

\* SnykExportAPI.download_group_export(group_id, export_result, output_file, format);
\* ts is the clock reading, resps[k] the answer to the request of part k, legacy the
\* answer of the jobs path, d the disk before the call
DownloadGroupExport(group_id, export_result, output_file, format, ts, resps, legacy, d) ==
    LET Raise(err) == DownloadResult(TRUE, err, <<>>, <<>>, d)
        status == Lower(Get(export_result.attr_status, s_empty))
        out == IF output_file # <<>> THEN output_file
               ELSE <<"snyk_group_export_", export_result.id, "_", ts, ".", format>>
    IN  IF ~export_result.has_data THEN Raise("ValueError")
        ELSE IF status \notin READY THEN Raise("ValueError")
        ELSE IF export_result.id = "" THEN Raise("ValueError")
        ELSE DownloadParts(DownloadResult(FALSE, "", <<>>, <<>>, d), 1,
                           ResultUrls(export_result), out, OutputDir(ts), resps, legacy)

----------------------------------------------------------------------------
(* Artifact retriever of the single-organization flow: download_export     *)

max_retries == 3
retry_delay == 5

OrgDownloadEndpoint == <<"orgs/{org_id}/exports/{export_id}/download", 0>>
OrgLegacyDownloadEndpoint == <<"orgs/{org_id}/{dataset}/report/download/{export_id}", 0>>

GetEvent(attempt, url) == [ev |-> "get", attempt |-> attempt, url |-> url, secs |-> 0]
SleepEvent(attempt, secs) ==
    [ev |-> "sleep", attempt |-> attempt, url |-> NoDownloadUrl, secs |-> secs]

NoError == [type |-> "", attempt |-> 0, wrapped |-> FALSE]

ExportResult(raised, error, path, trace, d) ==
    [raised |-> raised, error |-> error, path |-> path, trace |-> trace, disk |-> d,
     returned |-> FALSE, message |-> ""]

\* lines 1080-1082 with an off-by-one: the last attempt is never made
LastAttempt_OffByOne(attempt) == attempt = max_retries - 1

\* line 1081: `if attempt == max_retries`
LastAttempt(attempt) == attempt = max_retries

\* lines 1080-1086 with the wait also made after the last attempt
OnAttemptError_SleepFirst(acc, attempt, err) ==
    IF LastAttempt(attempt)
    THEN [acc EXCEPT !.raised = TRUE,
                     !.trace = Append(@, SleepEvent(attempt, retry_delay)),
                     !.error = [type |-> IF IsRequestException(err)
                                         THEN "RequestException" ELSE err,
                                attempt |-> attempt,
                                wrapped |-> IsRequestException(err)]]
    ELSE [acc EXCEPT !.trace = Append(@, SleepEvent(attempt, retry_delay))]

\* lines 1080-1097: the handler of a RequestException or IOError of one attempt; on the
\* last attempt the error is re-raised, and a RequestException is caught once more by
\* the outer handler, which raises RequestException("Failed to download export: <it>")
OnAttemptError(acc, attempt, err) ==
    IF LastAttempt(attempt)
    THEN [acc EXCEPT !.raised = TRUE,
                     !.error = [type |-> IF IsRequestException(err)
                                         THEN "RequestException" ELSE err,
                                attempt |-> attempt,
                                wrapped |-> IsRequestException(err)]]
    ELSE [acc EXCEPT !.trace = Append(@, SleepEvent(attempt, retry_delay))]

\* one pass of the loop with the empty file handled like a failed request
DownloadAttempt_RetryEmpty(acc, attempt, download_url, output_file, resp) ==
    LET asked == [acc EXCEPT !.trace = Append(@, GetEvent(attempt, download_url))]
        written == [asked EXCEPT !.disk = WriteFile(@, output_file, resp.size)]
    IN  CASE resp.kind = "ok" ->
               IF EmptyFileRaises(resp.size)
               THEN OnAttemptError(written, attempt, "ValueError")
               ELSE [written EXCEPT !.returned = TRUE, !.path = output_file]
          [] resp.kind = "broken" -> OnAttemptError(written, attempt, "ChunkedEncodingError")
          [] resp.kind = "ioerror" -> OnAttemptError(asked, attempt, "OSError")
          [] resp.kind = "conn" -> OnAttemptError(asked, attempt, "ConnectionError")
          [] OTHER -> OnAttemptError(asked, attempt, "HTTPError")

\* lines 1051-1086: one pass of `for attempt in range(1, max_retries + 1)`
DownloadAttempt(acc, attempt, download_url, output_file, resp) ==
    LET asked == [acc EXCEPT !.trace = Append(@, GetEvent(attempt, download_url))]
        written == [asked EXCEPT !.disk = WriteFile(@, output_file, resp.size)]
    IN  CASE resp.kind = "ok" ->
               IF EmptyFileRaises(resp.size)
               THEN \* a ValueError: caught by neither handler
                    [written EXCEPT !.raised = TRUE,
                                    !.error = [type |-> "ValueError", attempt |-> attempt,
                                               wrapped |-> FALSE]]
               ELSE [written EXCEPT !.returned = TRUE, !.path = output_file]
          [] resp.kind = "broken" -> OnAttemptError(written, attempt, "ChunkedEncodingError")
          [] resp.kind = "ioerror" -> OnAttemptError(asked, attempt, "OSError")
          [] resp.kind = "conn" -> OnAttemptError(asked, attempt, "ConnectionError")
          [] OTHER -> OnAttemptError(asked, attempt, "HTTPError")

RECURSIVE DownloadAttempts(_, _, _, _, _)
DownloadAttempts(acc, attempt, download_url, output_file, resps) ==
    IF attempt > max_retries \/ acc.raised \/ acc.returned THEN acc
    ELSE DownloadAttempts(DownloadAttempt(acc, attempt, download_url, output_file, resps[attempt]),
                          attempt + 1, download_url, output_file, resps)

\* line 1002: `if status != 'complete'`
ORG_READY == {s_complete}

\* SnykExportAPI.download_export(export_result, output_file, format); self_org_id is
\* the client's org_id, resps[k] the answer to the request of attempt k
DownloadExport(self_org_id, export_result, output_file, format, ts, resps, d) ==
    LET Raise(err, msg) ==
            [ExportResult(TRUE, [type |-> err, attempt |-> 0, wrapped |-> FALSE],
                          <<>>, <<>>, d) EXCEPT !.message = msg]
        status == Lower(Get(export_result.attr_status, s_empty))
        org_id == IF export_result.rel_org # "" THEN export_result.rel_org ELSE self_org_id
        \* lines 1024-1034: the legacy path is computed and never requested
        download_url == IF export_result.download_url # NoDownloadUrl THEN export_result.download_url
                        ELSE OrgDownloadEndpoint
        out == IF output_file # <<>> THEN output_file
               ELSE <<"snyk_export_", export_result.id, "_", ts, ".", format>>
    IN  IF ~export_result.has_data THEN Raise("ValueError", "Invalid export result format")
        ELSE IF status \notin ORG_READY
        THEN Raise("ValueError", "Export is not ready for download")
        ELSE IF export_result.id = ""
        THEN Raise("ValueError", "No export ID found in export result")
        ELSE IF org_id = "" THEN Raise("ValueError", "Organization ID is required")
        ELSE DownloadAttempts(ExportResult(FALSE, NoError, <<>>, <<>>, d), 1,
                              download_url, out, resps)

----------------------------------------------------------------------------
(* Retriever specification: one call of download_group_export or of        *)
(* download_export on arguments and responses drawn from bounded sets      *)

MaxParts == 3

\* n listed part URLs
Listed(n) == [k \in 1..n |-> PartUrl(k)]

\* n part URLs with one item that has no "url" key in second place
ListedWithGap(n) ==
    [k \in 1..(n + 1) |-> IF k = 2 THEN NoUrl ELSE PartUrl(IF k < 2 THEN k ELSE k - 1)]

ResultsInputs ==
    {Listed(n) : n \in 0..MaxParts} \cup {ListedWithGap(n) : n \in 1..(MaxParts - 1)}
        \cup {<<NoUrl>>}

OutputFileInputs ==
    { <<>>, <<"out">>, <<"dir", "/", "snyk", ".", "group", ".", "csv">> }

GroupPayloadInputs ==
    {Payload(TRUE, "job-1", s_finished, Absent, r, NoDownloadUrl, "") : r \in ResultsInputs}
        \cup { Payload(TRUE, "job-1", S_COMPLETE, Absent, <<>>, DirectUrl, ""),
               Payload(TRUE, "job-1", s_started, Absent, Listed(1), NoDownloadUrl, ""),
               Payload(TRUE, "", s_complete, Absent, Listed(1), NoDownloadUrl, ""),
               Payload(TRUE, "job-1", Absent, s_complete, Listed(1), NoDownloadUrl, ""),
               NoDataPayload }

PartRespInputs == {OkResp(1), OkResp(0), HttpResp(404), ConnResp}
LegacyRespInputs == {OkResp(1), OkResp(0), HttpResp(404), ConnResp, BrokenResp(0)}

OrgPayloadInputs ==
    {Payload(TRUE, "job-1", st, Absent, <<>>, u, o) :
        st \in {s_complete, S_COMPLETE}, u \in {NoDownloadUrl, DirectUrl}, o \in {"", "org-1"}}
        \cup { Payload(TRUE, "job-1", s_finished, Absent, <<>>, NoDownloadUrl, "org-1"),
               Payload(TRUE, "job-1", s_started, Absent, <<>>, NoDownloadUrl, "org-1"),
               Payload(TRUE, "job-1", Absent, s_complete, <<>>, NoDownloadUrl, "org-1"),
               Payload(TRUE, "", s_complete, Absent, <<>>, NoDownloadUrl, "org-1"),
               NoDataPayload }

AttemptRespInputs ==
    {OkResp(1), OkResp(0), HttpResp(404), HttpResp(400), ConnResp, BrokenResp(0), IoErrorResp}

GroupCall(p, o, r, l) ==
    [fn |-> "download_group_export", export_result |-> p, output_file |-> o,
     format |-> "csv", self_org_id |-> "", resps |-> r, legacy |-> l]

OrgCall(p, o, s, r) ==
    [fn |-> "download_export", export_result |-> p, output_file |-> o,
     format |-> "csv", self_org_id |-> s, resps |-> r, legacy |-> ConnResp]

\* the answers of the status endpoints put to the two status queries
StatusRespInputs ==
    {StatusOk(Payload(TRUE, "job-1", st, Absent, <<>>, NoDownloadUrl, "")) :
        st \in {s_started, S_Finished, s_failed, Absent}}
        \cup {StatusOk(NoDataPayload), StatusHttp(404), StatusHttp(400), StatusHttp(500),
              StatusHttp(401), StatusConn}

StatusCall(fn, g, e, s, o, p, l) ==
    [fn |-> fn, group_id |-> g, export_id |-> e, self_org_id |-> s, org_id |-> o,
     primary |-> p, legacy |-> l]

NotCalled == [called |-> FALSE]

FlowIdle ==
    /\ wf = "none" /\ datasets = <<>> /\ export_format = "csv" /\ pc = "idle" /\ dsIdx = 0
    /\ enriched = {} /\ merge_calls = <<>> /\ wf_return = [called |-> FALSE]
    /\ export_id = "" /\ attempts = 0 /\ elapsed = 0 /\ export_status = s_empty
    /\ lastQuery = NotCalled /\ job = NotCalled /\ outcomes = <<>>
    /\ downloaded_files = <<>> /\ disk = NoFiles /\ lastDownload = NotCalled

RetrieveInit ==
    /\ FlowIdle /\ ClientIdle
    /\ dl_out = NotCalled
    /\ \/ \E p \in GroupPayloadInputs, o \in OutputFileInputs,
             r \in [1..MaxParts -> PartRespInputs], l \in LegacyRespInputs :
               dl_in = GroupCall(p, o, r, l)
       \/ \E p \in OrgPayloadInputs, o \in {<<>>, <<"out", ".", "csv">>},
             s \in {"", "org-2"}, r \in [1..max_retries -> AttemptRespInputs] :
               dl_in = OrgCall(p, o, s, r)
       \/ \E g \in {"", "group-1"}, e \in {"", "job-1"},
             p \in StatusRespInputs, l \in StatusRespInputs :
               dl_in = StatusCall("get_group_export_status", g, e, "", "", p, l)
       \/ \E s \in {"", "org-2"}, e \in {"", "job-1"}, o \in {"", "org-1"},
             p \in StatusRespInputs, l \in StatusRespInputs :
               dl_in = StatusCall("get_export_status", "", e, s, o, p, l)
       \/ \E g \in {"", "group-1"}, p \in StatusRespInputs :
               dl_in = StatusCall("start_group_export", g, "", "", "", p, StatusConn)
       \/ \E s \in {"", "org-2"}, o \in {"", "org-1"},
             p \in StatusRespInputs, l \in StatusRespInputs :
               dl_in = StatusCall("start_export", "", "", s, o, p, l)

CallDownloadGroupExport ==
    /\ dl_in.fn = "download_group_export"
    /\ ~dl_out.called
    /\ dl_out' = [called |-> TRUE,
                  res |-> DownloadGroupExport("group-1", dl_in.export_result,
                                              dl_in.output_file, dl_in.format, "ts",
                                              dl_in.resps, dl_in.legacy, NoFiles)]
    /\ UNCHANGED <<dl_in, flowVars, clientVars>>

CallDownloadExport ==
    /\ dl_in.fn = "download_export"
    /\ ~dl_out.called
    /\ dl_out' = [called |-> TRUE,
                  res |-> DownloadExport(dl_in.self_org_id, dl_in.export_result,
                                         dl_in.output_file, dl_in.format, "ts",
                                         dl_in.resps, NoFiles)]
    /\ UNCHANGED <<dl_in, flowVars, clientVars>>

CallGetGroupExportStatus ==
    /\ dl_in.fn = "get_group_export_status"
    /\ ~dl_out.called
    /\ dl_out' = [called |-> TRUE,
                  res |-> GetGroupExportStatus(dl_in.group_id, dl_in.export_id,
                                               dl_in.primary, dl_in.legacy)]
    /\ UNCHANGED <<dl_in, flowVars, clientVars>>

CallGetExportStatus ==
    /\ dl_in.fn = "get_export_status"
    /\ ~dl_out.called
    /\ dl_out' = [called |-> TRUE,
                  res |-> GetExportStatus(dl_in.self_org_id, dl_in.export_id,
                                          dl_in.org_id, dl_in.primary, dl_in.legacy)]
    /\ UNCHANGED <<dl_in, flowVars, clientVars>>

CallStartGroupExport ==
    /\ dl_in.fn = "start_group_export"
    /\ ~dl_out.called
    /\ dl_out' = [called |-> TRUE, res |-> StartGroupExport(dl_in.group_id, dl_in.primary)]
    /\ UNCHANGED <<dl_in, flowVars, clientVars>>

CallStartExport ==
    /\ dl_in.fn = "start_export"
    /\ ~dl_out.called
    /\ dl_out' = [called |-> TRUE,
                  res |-> StartExport(dl_in.self_org_id, dl_in.org_id, dl_in.primary,
                                      dl_in.legacy)]
    /\ UNCHANGED <<dl_in, flowVars, clientVars>>

RetrieveNext ==
    \/ CallDownloadGroupExport
    \/ CallDownloadExport
    \/ CallGetGroupExportStatus
    \/ CallGetExportStatus
    \/ CallStartGroupExport
    \/ CallStartExport

SpecRetrieve == RetrieveInit /\ [][RetrieveNext]_vars

----------------------------------------------------------------------------
(* Orchestrators: start_group_export_workflow ("group_workflow"),          *)
(* start_export_workflow ("org_workflow"), run_export.main with --org-id,  *)
(* that is export_for_org ("export_for_org"), run_export.main with         *)
(* --group-export ("main_group") and menu.run_group_export_flow            *)
(* ("menu_group")                                                          *)

Workflows == {"group_workflow", "org_workflow", "export_for_org", "main_group", "menu_group"}

IsGroupFlow(w) == w \in {"group_workflow", "main_group", "menu_group"}

\* the loops bounded by `while attempts < max_attempts`; the others test the wall clock
AttemptCounted(w) == w \in {"group_workflow", "org_workflow"}

\* the orchestrators whose dataset loop body is inside try/except Exception
CatchesPerDataset(w) == w \in {"group_workflow", "org_workflow", "export_for_org"}

\* the orchestrators that call enrich_export_files after a download
Enriches(w) == w \in {"group_workflow", "org_workflow"}

DatasetChoices(w) ==
    CASE w = "group_workflow" -> {<<"issues", "usage">>}
      [] w \in {"org_workflow", "export_for_org"} -> {<<"issues", "dependencies">>}
      [] w = "main_group" -> {<<"issues">>}
      [] OTHER -> {<<"issues">>, <<"usage">>, <<"issues", "usage">>}

\* a loop without a branch for the failure statuses
FailureSet_None(w) == {}

\* a loop that downloads as soon as the job is reported started
SuccessSet_Early(w) == {s_complete, s_finished, s_started}

\* the statuses on which each loop downloads, and on which it gives the job up
SuccessSet(w) == IF IsGroupFlow(w) THEN {s_complete, s_finished} ELSE {s_complete}
FailureSet(w) ==
    IF w = "menu_group" THEN {s_error, s_failed, s_cancelled} ELSE {s_failed, s_cancelled}

\* where each loop reads the status: data.attributes.status or data.status
PolledStatus(w, data) ==
    IF ~data.has_data THEN Absent
    ELSE IF IsGroupFlow(w) THEN data.attr_status ELSE data.top_status

max_attempts == 60

\* line 483 with the bound included
LoopContinues_Inclusive(n) == n <= max_attempts

\* lines 483, 1241: `while attempts < max_attempts`
LoopContinues(n) == n < max_attempts

\* the wall-clock budget (--timeout, "Timeout seconds") counted in poll intervals
TimeoutUnits == 2
Latencies == {0, 1}

\* lines 45, 152 (run_export.py), 125 (menu.py): `time.time() - start > timeout`
TimedOut(now) == now > TimeoutUnits

JobId(i) == <<"job-1", "job-2">>[i]
Ts(i) == <<"ts1", "ts2">>[i]
GroupId == "group-1"
OrgId == "org-1"

\* the output file name each orchestrator builds for a dataset
OutputFile(w, dataset, fmt) ==
    IF IsGroupFlow(w) THEN <<"snyk_group_export_", dataset, ".", fmt>>
    ELSE <<"snyk_export_", dataset, ".", fmt>>

NewJob ==
    [called |-> TRUE, polls |-> 0, raw |-> Absent, had_data |-> FALSE, verdict |-> "none"]

FlowInit ==
    /\ wf \in Workflows
    /\ datasets \in DatasetChoices(wf)
    /\ export_format \in {"csv", "json"}
    /\ pc = "submit" /\ dsIdx = 1
    /\ export_id = "" /\ attempts = 0 /\ elapsed = 0 /\ export_status = s_empty
    /\ lastQuery = NotCalled /\ job = NotCalled /\ outcomes = <<>>
    /\ downloaded_files = <<>> /\ disk = NoFiles /\ lastDownload = NotCalled
    /\ enriched = {} /\ merge_calls = <<>> /\ wf_return = NotCalled
    /\ dl_in = [fn |-> "none"] /\ dl_out = NotCalled
    /\ ClientIdle

\* the dataset ends with outcome o and the `for dataset in datasets` loop goes on
EndDataset(o) ==
    /\ outcomes' = Append(outcomes, o)
    /\ IF dsIdx < Len(datasets)
       THEN dsIdx' = dsIdx + 1 /\ pc' = "submit"
       ELSE dsIdx' = dsIdx /\ pc' = "finish"

\* an exception that no handler of the orchestrator catches
Abort(o) ==
    /\ outcomes' = Append(outcomes, o)
    /\ dsIdx' = dsIdx /\ pc' = "aborted"

\* an exception raised in the body of the dataset loop
Raised(o) == IF CatchesPerDataset(wf) THEN EndDataset(o) ELSE Abort(o)

\* a handler that catches every exception
ExceptException_Bare(exc) == TRUE

\* `except Exception`: KeyboardInterrupt and SystemExit derive from BaseException only
ExceptException(exc) == exc \notin {"KeyboardInterrupt", "SystemExit"}

\* the orchestrators that prompt with get_user_input before the dataset loop
PromptsUser(w) == w \in {"group_workflow", "org_workflow"}

\* the handler that an interrupt reaches: get_user_input turns it into sys.exit(0)
\* (snyk_export.py:1312-1314), main.py catches it around the two workflows (189, 246),
\* run_export.main around its whole body (197); menu.py has no handler
InterruptBoundary(w, point) ==
    CASE point = "prompt" -> "get_user_input"
      [] w \in {"group_workflow", "org_workflow"} -> "main.py"
      [] w \in {"export_for_org", "main_group"} -> "run_export.main"
      [] OTHER -> "uncaught"

Interruption(point) ==
    [called |-> FALSE, interrupted |-> point, caught_by |-> InterruptBoundary(wf, point)]

\* the per-dataset handler takes the exception for a failure of the dataset
Swallowed(exc) == CatchesPerDataset(wf) /\ ExceptException(exc)

\* a KeyboardInterrupt raised in the body of the dataset loop
Interrupted(point) ==
    IF Swallowed("KeyboardInterrupt")
    THEN EndDataset("interrupted") /\ wf_return' = wf_return
    ELSE /\ outcomes' = Append(outcomes, "interrupted")
         /\ dsIdx' = dsIdx /\ pc' = "interrupted"
         /\ wf_return' = Interruption(point)

SubmitRespInputs ==
    { StatusOk(Payload(TRUE, "job", s_pending, Absent, <<>>, NoDownloadUrl, "")),
      StatusOk(Payload(TRUE, "", s_pending, Absent, <<>>, NoDownloadUrl, "")),
      StatusHttp(404), StatusHttp(500), StatusConn }

\* the submit step of one dataset: lines 456-481 and 1219-1239 of snyk_export.py,
\* 17-29 and 124-135 of run_export.py, 96-108 of menu.py
Submit ==
    /\ pc = "submit"
    /\ \E primary \in SubmitRespInputs :
       \E legacy \in (IF ~IsGroupFlow(wf) /\ primary.kind = "http"
                         /\ primary.code \in FallbackCodes
                      THEN SubmitRespInputs ELSE {StatusConn}) :
          LET r == IF IsGroupFlow(wf) THEN StartGroupExport(GroupId, primary)
                   ELSE StartExport("", OrgId, primary, legacy)
          IN  /\ job' = NewJob
              /\ lastQuery' = NotCalled /\ lastDownload' = NotCalled
              /\ attempts' = 0 /\ elapsed' = 0 /\ export_status' = s_empty
              /\ IF r.raised
                 THEN Raised("submit_error") /\ export_id' = ""
                 ELSE IF ~r.data.has_data \/ r.data.id = ""
                 THEN EndDataset("not_started") /\ export_id' = ""
                 ELSE /\ export_id' = JobId(dsIdx)
                      /\ pc' = "poll"
                      /\ UNCHANGED <<dsIdx, outcomes>>
    /\ UNCHANGED <<wf, datasets, export_format, downloaded_files, disk, enriched,
                   merge_calls, wf_return, dlVars, clientVars>>

----------------------------------------------------------------------------
(* The poll loop: one action per pass of `while ...:`, the download and    *)
(* the enrichment made on a successful status included                     *)

MaxFlowParts == 2

FlowResults == {Listed(n) : n \in 0..MaxFlowParts}

GroupStatus(eid, s, r) == Payload(TRUE, eid, s, Absent, r, NoDownloadUrl, "")
OrgStatus(eid, a, t, o) == Payload(TRUE, eid, a, t, <<>>, NoDownloadUrl, o)

\* status answers of the group endpoints for job eid (JSON:API: status in attributes)
GroupStatusPayloads(eid) ==
    {GroupStatus(eid, s_finished, r) : r \in FlowResults}
        \cup {GroupStatus(eid, S_COMPLETE, Listed(1))}
        \cup {GroupStatus(eid, s, <<>>) :
                s \in {s_failed, S_Cancelled, s_started, s_error, Absent}}
        \cup {NoDataPayload}

\* status answers of the organization endpoints: the status under data.attributes,
\* under data, or under both
OrgStatusPayloads(eid) ==
    {OrgStatus(eid, s, s, OrgId) :
        s \in {s_complete, S_COMPLETE, s_finished, s_failed, S_Cancelled, s_started, s_error}}
        \cup {OrgStatus(eid, Absent, s_complete, OrgId),
              OrgStatus(eid, s_complete, Absent, OrgId),
              OrgStatus(eid, s_complete, s_complete, ""),
              NoDataPayload}

LegacyStatusPayloads(w, eid) ==
    IF IsGroupFlow(w) THEN {GroupStatus(eid, S_STARTED, <<>>)}
    ELSE {OrgStatus(eid, s_started, s_started, OrgId)}

StatusResps(w, eid) ==
    IF IsGroupFlow(w)
    THEN {StatusOk(p) : p \in GroupStatusPayloads(eid)} \cup {StatusHttp(500), StatusConn}
    ELSE {StatusOk(p) : p \in OrgStatusPayloads(eid)}
            \cup {StatusHttp(404), StatusHttp(500), StatusConn}

LegacyStatusResps(w, eid) ==
    {StatusOk(p) : p \in LegacyStatusPayloads(w, eid)} \cup {StatusHttp(404)}

\* whether the status query asks the legacy endpoint after this primary answer
AsksLegacy(w, primary) ==
    primary.kind = "http" /\ (IsGroupFlow(w) \/ primary.code \in FallbackCodes)

StatusQuery(w, eid, primary, legacy) ==
    IF IsGroupFlow(w) THEN GetGroupExportStatus(GroupId, eid, primary, legacy)
    ELSE GetExportStatus("", eid, OrgId, primary, legacy)

FlowPartResps == {OkResp(1), OkResp(0), HttpResp(404)}

\* the answers of the attempts of download_export: the attempts after the one that
\* ends the retry loop are never made
FlowAttemptResps ==
    {r \in [1..max_retries -> FlowPartResps] :
        \A k \in 2..max_retries : r[k - 1].kind = "ok" => r[k] = OkResp(1)}

\* the answers consumed by the download of a payload that the loop found ready
DownloadInputs(w, data) ==
    IF IsGroupFlow(w)
    THEN LET n == Len(ResultUrls(data))
         IN  {d \in [resps : [1..n -> FlowPartResps], legacy : {OkResp(1), HttpResp(404)}] :
                (n = 1 /\ d.resps[1].kind = "http") \/ d.legacy = OkResp(1)}
    ELSE [resps : FlowAttemptResps, legacy : {ConnResp}]

NoDownloadInput == [resps |-> <<>>, legacy |-> ConnResp]

\* the download call of each loop, brought to one shape
Download(w, data, dataset, fmt, ts, d, dsk) ==
    IF IsGroupFlow(w)
    THEN LET r == DownloadGroupExport(GroupId, data, OutputFile(w, dataset, fmt), fmt, ts,
                                      d.resps, d.legacy, dsk)
         IN  [called |-> TRUE, fn |-> "download_group_export", dataset |-> dataset,
              raised |-> r.raised, message |-> "",
              urls |-> ResultUrls(data), files |-> r.saved_files, disk |-> r.disk,
              requests |-> r.requests]
    ELSE LET r == DownloadExport("", data, OutputFile(w, dataset, fmt), fmt, ts, d.resps, dsk)
         IN  [called |-> TRUE, fn |-> "download_export", dataset |-> dataset,
              raised |-> r.raised, message |-> r.message,
              urls |-> <<>>, files |-> IF r.returned THEN <<r.path>> ELSE <<>>,
              disk |-> r.disk, requests |-> r.trace]

Range(f) == {f[i] : i \in DOMAIN f}

\* the status as the answering endpoint reported it, where the loop of w reads it
ReportedStatus(w, q, primary, legacy) ==
    IF q.raised THEN Absent
    ELSE IF q.synthesized THEN s_started
    ELSE PolledStatus(w, IF Len(q.requests) = 2 THEN legacy.payload ELSE primary.payload)

\* a loop that tests its budget before it looks at the polled status
Classify_TimeoutFirst(w, q, st, more) ==
    CASE q.raised -> "error"
      [] w = "group_workflow" /\ ~q.data.has_data -> "no_data"
      [] ~more -> "timeout"
      [] st \in SuccessSet(w) -> "success"
      [] st \in FailureSet(w) -> "failure"
      [] OTHER -> "again"

\* what one pass of the loop of w does with the answer q of the status query
Classify(w, q, st, more) ==
    CASE q.raised -> "error"
      [] w = "group_workflow" /\ ~q.data.has_data -> "no_data"
      [] st \in SuccessSet(w) -> "success"
      [] st \in FailureSet(w) -> "failure"
      [] more -> "again"
      [] OTHER -> "timeout"

Poll ==
    /\ pc = "poll"
    /\ \E primary \in StatusResps(wf, export_id),
          lat \in (IF AttemptCounted(wf) THEN {0} ELSE Latencies) :
       \E legacy \in (IF AsksLegacy(wf, primary) THEN LegacyStatusResps(wf, export_id)
                      ELSE {StatusConn}) :
       \E q \in {StatusQuery(wf, export_id, primary, legacy)} :
       \E st \in {Lower(Get(PolledStatus(wf, q.data), s_unknown))} :
       \E more \in {IF AttemptCounted(wf) THEN LoopContinues(attempts + 1)
                    ELSE ~TimedOut(elapsed + lat)} :
       \E verdict \in {Classify(wf, q, st, more)} :
       \E d \in (IF verdict = "success" THEN DownloadInputs(wf, q.data)
                 ELSE {NoDownloadInput}) :
       \E dl \in {IF verdict = "success"
                  THEN Download(wf, q.data, datasets[dsIdx], export_format, Ts(dsIdx),
                                d, disk)
                  ELSE lastDownload} :
       \E intr \in (IF verdict = "success"
                    THEN {"none", "download"}
                           \cup (IF Enriches(wf) /\ ~dl.raised THEN {"enrichment"} ELSE {})
                    ELSE {"none"}) :
          /\ lastQuery' = [called |-> TRUE, raised |-> q.raised,
                           requests |-> Len(q.requests), synthesized |-> q.synthesized]
          /\ job' = [job EXCEPT !.polls = @ + 1,
                                !.raw = ReportedStatus(wf, q, primary, legacy),
                                !.had_data = ~q.raised /\ q.data.has_data,
                                !.verdict = verdict]
          /\ export_status' = IF verdict \in {"error", "no_data"} THEN export_status ELSE st
          /\ lastDownload' = IF intr = "download"
                             THEN [dl EXCEPT !.raised = TRUE, !.files = <<>>] ELSE dl
          /\ disk' = IF verdict = "success" THEN dl.disk ELSE disk
          /\ downloaded_files' = IF verdict = "success" /\ ~dl.raised
                                    /\ (intr = "none"
                                          \/ (intr = "enrichment" /\ wf = "org_workflow"))
                                 THEN downloaded_files \o dl.files
                                 ELSE downloaded_files
          /\ enriched' = IF verdict = "success" /\ ~dl.raised /\ Enriches(wf)
                            /\ intr = "none"
                         THEN enriched \cup Range(dl.files) ELSE enriched
          /\ attempts' = IF verdict \in {"again", "timeout"} /\ AttemptCounted(wf)
                         THEN attempts + 1 ELSE attempts
          /\ elapsed' = IF AttemptCounted(wf) THEN elapsed
                        ELSE IF verdict = "again" THEN elapsed + lat + 1 ELSE elapsed + lat
          /\ IF intr # "none" THEN Interrupted(intr)
             ELSE /\ wf_return' = wf_return
                  /\ CASE verdict = "error" -> Raised("status_error")
                       [] verdict = "no_data" -> EndDataset("status_failed")
                       [] verdict = "success" ->
                            IF dl.raised THEN Raised("download_error")
                            ELSE EndDataset("success")
                       [] verdict = "failure" -> EndDataset("failure")
                       [] verdict = "timeout" -> EndDataset("timeout")
                       [] OTHER -> UNCHANGED <<pc, dsIdx, outcomes>>
    /\ UNCHANGED <<wf, datasets, export_format, export_id, merge_calls, dlVars, clientVars>>

\* Ctrl-C while the orchestrator waits: at the prompt for the export format
\* (snyk_export.py:365, 1212) or in the sleep between two passes of the poll loop
Interrupt ==
    /\ \/ /\ pc = "submit" /\ dsIdx = 1 /\ outcomes = <<>> /\ PromptsUser(wf)
          /\ outcomes' = <<"interrupted">> /\ dsIdx' = dsIdx /\ pc' = "interrupted"
          /\ wf_return' = Interruption("prompt")
       \/ /\ pc = "poll" /\ job.polls > 0
          /\ Interrupted("sleep")
    /\ UNCHANGED <<wf, datasets, export_format, export_id, attempts, elapsed, export_status,
                   lastQuery, job, downloaded_files, disk, lastDownload, enriched,
                   merge_calls, dlVars, clientVars>>

----------------------------------------------------------------------------
(* After the dataset loop: the merger calls of each orchestrator           *)

MergeCall(fn, inputs, output, ok) ==
    [fn |-> fn, inputs |-> inputs, output |-> output, returned |-> ok]

\* f.lower().endswith("." + ext); the format tokens of the model are lower-case
EndsWith(path, ext) ==
    Len(path) >= 2 /\ SubSeq(path, Len(path) - 1, Len(path)) = <<".", ext>>

FilesOfFormat(files, ext) == SelectSeq(files, LAMBDA f : EndsWith(f, ext))

MergeTs == "merge-ts"

\* the files written by the project step of start_group_export_workflow (551-553)
ProjectCsv(k) == <<"exports", "/", MergeTs, "/", "snyk_project_", ToString(k), ".", "csv">>

\* the destinations of the merger calls
CombinedGroupFile ==
    <<"exports", "/", MergeTs, "/", "snyk_combined_group_export_", ".", "csv">>
FinalCombinedFile ==
    <<"exports", "/", MergeTs, "/", "snyk_final_combined_export_", ".", "csv">>

\* os.path.dirname: empty for a bare file name
Dirname(p) == IF LastIndexOf(p, "/") = 0 THEN <<>> ELSE SubSeq(p, 1, LastIndexOf(p, "/") - 1)

\* os.path.join(os.path.dirname(downloaded[0]) or ".", f"snyk_combined_export_{ts}.{ext}")
CombinedBesideFirst(files, ext) ==
    PathJoin(IF Dirname(files[1]) = <<>> THEN <<".">> ELSE Dirname(files[1]),
             <<"snyk_combined_export_", MergeTs, ".", ext>>)

\* the local `timestamp` of start_group_export_workflow is bound at line 492, when a job
\* was found complete, or at line 533 by the first merge
TimestampBound(ocs, files) ==
    Len(files) > 1 \/ \E k \in DOMAIN ocs : ocs[k] \in {"success", "download_error"}

\* line 560: `if len(all_files) > 1`
FinalMerge(all_files) == Len(all_files) > 1

\* snyk_export.py:531-566; without `timestamp` line 551 raises NameError, caught per
\* organization at 555, and project_files stays empty; ok1, ok2: what the merger returns
GroupWorkflowMerges(files, found_projects, bound, ok1, ok2) ==
    LET project_files == IF bound THEN found_projects ELSE <<>>
        all_files == files \o project_files
    IN  (IF Len(files) > 1
         THEN <<MergeCall("combine_csv_files", files, CombinedGroupFile, ok1)>> ELSE <<>>)
          \o (IF FinalMerge(all_files)
              THEN <<MergeCall("combine_csv_files", all_files, FinalCombinedFile, ok2)>>
              ELSE <<>>)

\* run_export.py:178-194
RunExportMerges(files, fmt, combine, ok) ==
    IF combine = "yes" /\ Len(files) >= 2
    THEN LET fn == IF fmt = "json" THEN "combine_json_files" ELSE "combine_csv_files"
             ext == IF fmt = "json" THEN "json" ELSE "csv"
             same == FilesOfFormat(files, ext)
         IN  IF Len(same) >= 2
             THEN <<MergeCall(fn, same, CombinedBesideFirst(files, ext), ok)>> ELSE <<>>
    ELSE <<>>

\* menu.py:130-142
MenuMerges(files, fmt, ok) ==
    IF files # <<>> /\ fmt = "csv" /\ Len(FilesOfFormat(files, "csv")) >= 2
    THEN <<MergeCall("combine_csv_files", FilesOfFormat(files, "csv"),
                     CombinedBesideFirst(files, "csv"), ok)>>
    ELSE <<>>

\* the project files saved by save_project_to_csv (lines 551-553)
RECURSIVE SaveProjects(_, _)
SaveProjects(dsk, project_files) ==
    IF project_files = <<>> THEN dsk
    ELSE SaveProjects(WriteFile(dsk, Head(project_files), 1), Tail(project_files))

\* the merged files that combine_csv_files / combine_json_files wrote: the merger
\* writes its destination and nothing else, and only when it returns True
RECURSIVE WriteMerged(_, _)
WriteMerged(dsk, calls) ==
    IF calls = <<>> THEN dsk
    ELSE WriteMerged(IF Head(calls).returned THEN WriteFile(dsk, Head(calls).output, 1)
                     ELSE dsk,
                     Tail(calls))

\* a return value that names the merged files too
WorkflowReturn_WithMerged(w, files, calls) ==
    IF w \in {"group_workflow", "org_workflow", "export_for_org"}
    THEN files \o [k \in DOMAIN calls |-> calls[k].output] ELSE <<>>

\* `return downloaded_files` (snyk_export.py:566, 1285, run_export.py:51); the two
\* flows that are not functions of a list return none
WorkflowReturn(w, files, calls) ==
    IF w \in {"group_workflow", "org_workflow", "export_for_org"} THEN files ELSE <<>>

Finish ==
    /\ pc = "finish"
    /\ \E found \in (IF wf = "group_workflow"
                     THEN {<<>>, <<ProjectCsv(1)>>, <<ProjectCsv(1), ProjectCsv(2)>>}
                     ELSE {<<>>}),
          combine \in (IF wf \in {"export_for_org", "main_group"} THEN {"yes", "no"}
                       ELSE {"yes"}),
          ok1 \in BOOLEAN, ok2 \in BOOLEAN :
       \E bound \in {TimestampBound(outcomes, downloaded_files)} :
       \E calls \in {CASE wf = "group_workflow" ->
                          GroupWorkflowMerges(downloaded_files, found, bound, ok1, ok2)
                     [] wf \in {"export_for_org", "main_group"} ->
                          RunExportMerges(downloaded_files, export_format, combine, ok1)
                     [] wf = "menu_group" ->
                          MenuMerges(downloaded_files, export_format, ok1)
                     [] OTHER -> <<>>} :
          /\ merge_calls' = calls
          /\ disk' = WriteMerged(SaveProjects(disk, IF bound THEN found ELSE <<>>), calls)
          /\ wf_return' = [called |-> TRUE,
                          files |-> WorkflowReturn(wf, downloaded_files, calls)]
    /\ pc' = "done"
    /\ UNCHANGED <<wf, datasets, export_format, dsIdx, export_id, attempts, elapsed,
                   export_status, lastQuery, job, outcomes, downloaded_files,
                   lastDownload, enriched, dlVars, clientVars>>

Next == Submit \/ Poll \/ Interrupt \/ Finish

Spec == FlowInit /\ [][Next]_vars

----------------------------------------------------------------------------
(* CSV artifacts as pandas reads and writes them.  A cell is a sequence of *)
(* tokens; the empty sequence is the empty cell of the file.               *)

EmptyCell == <<>>

\* the missing value of a DataFrame, and the value of row.get() for an absent column
NaN == <<"<NaN>">>
None == <<"<None>">>

Table(cols, rows) == [cols |-> cols, rows |-> rows]

\* position of the first x in seq, 0 when there is none
IndexOf(seq, x) ==
    IF \E i \in DOMAIN seq : seq[i] = x
    THEN CHOOSE i \in DOMAIN seq : seq[i] = x /\ \A j \in 1..(i - 1) : seq[j] # x
    ELSE 0

\* the integer literals of the model and the way pandas prints the parsed number
IntCanon == [c \in {"7", "007"} |-> "7"]

IsIntCell(c) == Len(c) = 1 /\ c[1] \in DOMAIN IntCanon

\* dtype inference of pandas.read_csv for column j of the file
Dtype(t, j) ==
    LET cells == {t.rows[i][j] : i \in DOMAIN t.rows}
    IN  IF t.rows = <<>> THEN "object"
        ELSE IF \A c \in cells \ {EmptyCell} : IsIntCell(c)
        THEN IF EmptyCell \in cells THEN "float64" ELSE "int64"
        ELSE "object"

ParseCell(dtype, c) ==
    IF c = EmptyCell THEN NaN
    ELSE CASE dtype = "int64" -> <<IntCanon[c[1]]>>
           [] dtype = "float64" -> <<IntCanon[c[1]], ".0">>
           [] OTHER -> c

\* pandas.read_csv(file) on the text t: empty cells become NaN, numeric columns are parsed
ReadCsv(t) ==
    Table(t.cols, [i \in DOMAIN t.rows |->
                      [j \in DOMAIN t.cols |-> ParseCell(Dtype(t, j), t.rows[i][j])]])

\* DataFrame.to_csv(file, index=False): NaN and None are written as the empty cell
ToCsv(df) ==
    Table(df.cols, [i \in DOMAIN df.rows |->
                      [j \in DOMAIN df.cols |->
                          IF df.rows[i][j] \in {NaN, None} THEN EmptyCell
                          ELSE df.rows[i][j]]])

\* row.get(col): the cell of the row, None when the frame has no such column
RowGet(df, i, col) ==
    IF IndexOf(df.cols, col) = 0 THEN None ELSE df.rows[i][IndexOf(df.cols, col)]

\* truth value of a cell value in `x or y` and `if x`: NaN is a non-zero float
Truthy(v) == v # None /\ v # EmptyCell

\* df[col] = values: an existing column is overwritten in place, a new one is appended
SetColumn(df, col, values) ==
    LET j == IndexOf(df.cols, col)
    IN  IF j = 0
        THEN Table(Append(df.cols, col),
                   [i \in DOMAIN df.rows |-> Append(df.rows[i], values[i])])
        ELSE Table(df.cols,
                   [i \in DOMAIN df.rows |-> [df.rows[i] EXCEPT ![j] = values[i]]])

\* a file of the working directory
File(readable, writable, content) ==
    [readable |-> readable, writable |-> writable, content |-> content]

----------------------------------------------------------------------------
(* The two cached lookups of the enricher                                  *)

Project(created, deps, counts) ==
    [created |-> created, totalDependencies |-> deps, issueCountsBySeverity |-> counts]

LookupResult(raised, error, data, cache, requests) ==
    [raised |-> raised, error |-> error, data |-> data, cache |-> cache,
     requests |-> requests]

\* cache[key] = data on a cache that holds one entry only
Store_Evicting(cache, key, data) == [k \in {key} |-> data]

\* cache[key] = data
Store(cache, key, data) ==
    [k \in (DOMAIN cache) \cup {key} |-> IF k = key THEN data ELSE cache[k]]

NoProject == Project(Absent, Absent, Absent)

\* SnykExportAPI.get_project_v1(org_id, project_id); resp answers the request, if made
GetProjectV1(cache, org_id, project_id, resp) ==
    LET cache_key == <<org_id, project_id>>
    IN  IF cache_key \in DOMAIN cache
        THEN LookupResult(FALSE, "", cache[cache_key], cache, <<>>)
        ELSE CASE resp.kind = "ok" ->
                    LookupResult(FALSE, "", resp.data, Store(cache, cache_key, resp.data),
                                 <<cache_key>>)
               [] resp.kind = "http" ->
                    LookupResult(TRUE, "HTTPError", NoProject, cache, <<cache_key>>)
               [] OTHER ->
                    LookupResult(TRUE, "ConnectionError", NoProject, cache, <<cache_key>>)

IgnoreInfo(reason, reason_type, notes, ignored_since) ==
    [reason |-> reason, reason_type |-> reason_type, notes |-> notes,
     ignored_since |-> ignored_since]

NoIgnores == [k \in {} |-> IgnoreInfo(Absent, Absent, Absent, Absent)]

\* lines 78-94: the ignore map built from the policies of the answer; a policy is
\* [policy_type, created_at, reason, reason_type, notes, issues], later ones win
RECURSIVE IgnoreMap(_, _)
IgnoreMap(policies, acc) ==
    IF policies = <<>> THEN acc
    ELSE LET p == Head(policies)
             info == IgnoreInfo(p.reason, p.reason_type, p.notes, p.created_at)
             ids == {p.issues[i] : i \in DOMAIN p.issues} \ {EmptyCell}
             next == IF p.policy_type # "ignore" THEN acc
                     ELSE [k \in (DOMAIN acc) \cup ids |-> IF k \in ids THEN info ELSE acc[k]]
         IN  IgnoreMap(Tail(policies), next)

\* SnykExportAPI.get_org_policies(org_id)
GetOrgPolicies(cache, org_id, resp) ==
    IF org_id \in DOMAIN cache
    THEN LookupResult(FALSE, "", cache[org_id], cache, <<>>)
    ELSE CASE resp.kind = "ok" ->
                LET ignore_map == IgnoreMap(resp.data, NoIgnores)
                IN  LookupResult(FALSE, "", ignore_map, Store(cache, org_id, ignore_map),
                                 <<org_id>>)
           [] resp.kind = "http" -> LookupResult(TRUE, "HTTPError", NoIgnores, cache, <<org_id>>)
           [] OTHER -> LookupResult(TRUE, "ConnectionError", NoIgnores, cache, <<org_id>>)

----------------------------------------------------------------------------
(* Enricher: enrich_export_files                                           *)

\* lines 108-116, in the insertion order of the dict
additional_cols ==
    <<"PROJECT_CREATED_AT", "PROJECT_TOTAL_DEPENDENCIES", "PROJECT_SEVERITY_COUNTS",
      "IGNORE_REASON", "IGNORE_REASON_TYPE", "IGNORE_NOTES", "IGNORED_SINCE">>

\* str.lower() of the extension tokens of the model
LowerExt(tok) ==
    CASE tok \in {"csv", "CSV", "Csv"} -> "csv"
      [] tok \in {"json", "JSON"} -> "json"
      [] OTHER -> tok

\* a test that takes every name with an extension for a CSV artifact
IsCsvName_AnyExtension(path) == Len(path) >= 2 /\ path[Len(path) - 1] = "."

\* line 100: file_path.lower().endswith(".csv")
IsCsvName(path) ==
    Len(path) >= 2 /\ path[Len(path) - 1] = "." /\ LowerExt(path[Len(path)]) = "csv"

\* str(value) of a cell value
Str(v) == IF v = NaN THEN <<"nan">> ELSE v

\* json.dumps of the issue counts
Dumps(v) == <<"{">> \o v \o <<"}">>

UrlDelims == {"/", "?"}

\* the longest run of tokens without "/" and "?" that starts at position i
RECURSIVE RunFrom(_, _)
RunFrom(url, i) ==
    IF i > Len(url) \/ url[i] \in UrlDelims THEN <<>>
    ELSE <<url[i]>> \o RunFrom(url, i + 1)

\* re.search(r"issue-([^/?]+)", url): group 1 of the leftmost match, None without one
IssueKeyMatch(url) ==
    LET hits == {i \in 1..(Len(url) - 1) : url[i] = "issue-" /\ url[i + 1] \notin UrlDelims}
    IN  IF hits = {} THEN None
        ELSE RunFrom(url, (CHOOSE i \in hits : \A j \in hits : i <= j) + 1)

\* the value under which a cell value is looked up in a dict: whether two NaN read
\* from a frame are one key depends on their being one object
DictKey(v, nan_identity, tag) ==
    IF v = NaN /\ ~nan_identity THEN <<"<NaN>", ToString(tag)>> ELSE v

\* the state threaded through a call: the caches, the requests made so far, the
\* values collected for the rows of the current file
EnrichState(pc_, ig_, files, requests, values, events) ==
    [project_cache |-> pc_, policy_ignore_cache |-> ig_, fs |-> files,
     requests |-> requests, values |-> values, events |-> events, file |-> <<>>,
     raised |-> FALSE, keys |-> <<>>]

\* the answer to the n-th request of an endpoint; the last listed answer repeats
RespAt(resps, n) == resps[IF n > Len(resps) THEN Len(resps) ELSE n]

\* a request sent for row `row` of `file`, and whether it failed
ApiRequest(fn, key, file, row, failed) ==
    [fn |-> fn, key |-> key, file |-> file, row |-> row, failed |-> failed]

\* a field with the looked-up value with an error text in place of the blank
BlankOnFailure_ErrorText(raised, value) == IF raised THEN <<"error">> ELSE value

\* lines 121-127 and 135-138, 159-162: the fields keep their initial "" when the
\* lookup raised
BlankOnFailure(raised, value) == IF raised THEN EmptyCell ELSE value

CountOf(requests, fn) == Len(SelectSeq(requests, LAMBDA r : r.fn = fn))

\* lines 119-170: the body of `for _, row in df.iterrows()`; env holds the client's
\* default org id and the answers of the two endpoints in request order
EnrichRow(st, df, i, env) ==
    LET cell_org == RowGet(df, i, "ORG_PUBLIC_ID")
        org_id == IF Truthy(cell_org) THEN cell_org ELSE env.self_org_id
        project_id == RowGet(df, i, "PROJECT_PUBLIC_ID")
        tag == Len(st.requests) + 1
        org_key == DictKey(org_id, env.nan_identity, tag)
        np == CountOf(st.requests, "get_project_v1")
        nq == CountOf(st.requests, "get_org_policies")
        pl == IF Truthy(org_id) /\ Truthy(project_id)
              THEN GetProjectV1(st.project_cache, org_key,
                                DictKey(project_id, env.nan_identity, tag),
                                RespAt(env.project_resps, np + 1))
              ELSE LookupResult(TRUE, "skipped", NoProject, st.project_cache, <<>>)
        issue_id == RowGet(df, i, "ISSUE_URL")
        issue_key == IF Truthy(issue_id)
                     THEN IF IssueKeyMatch(Str(issue_id)) # None
                          THEN IssueKeyMatch(Str(issue_id)) ELSE Str(issue_id)
                     ELSE RowGet(df, i, "PROBLEM_ID")
        il == IF Truthy(org_id) /\ Truthy(issue_key)
              THEN GetOrgPolicies(st.policy_ignore_cache, org_key, RespAt(env.policy_resps, nq + 1))
              ELSE LookupResult(TRUE, "skipped", NoIgnores, st.policy_ignore_cache, <<>>)
        ignored == ~il.raised /\ issue_key \in DOMAIN il.data
        info == IF ignored THEN il.data[issue_key]
                ELSE IgnoreInfo(Absent, Absent, Absent, Absent)
        new == <<BlankOnFailure(pl.raised, Get(pl.data.created, EmptyCell)),
                 BlankOnFailure(pl.raised, Get(pl.data.totalDependencies, EmptyCell)),
                 BlankOnFailure(pl.raised, Dumps(Get(pl.data.issueCountsBySeverity, <<>>))),
                 BlankOnFailure(il.raised, Get(info.reason, EmptyCell)),
                 BlankOnFailure(il.raised, Get(info.reason_type, EmptyCell)),
                 BlankOnFailure(il.raised, Get(info.notes, EmptyCell)),
                 BlankOnFailure(il.raised, Get(info.ignored_since, EmptyCell))>>
    IN  [st EXCEPT !.project_cache = pl.cache,
                   !.policy_ignore_cache = il.cache,
                   !.requests =
                       @ \o [k \in DOMAIN pl.requests |->
                                ApiRequest("get_project_v1", pl.requests[k], st.file, i, pl.raised)]
                         \o [k \in DOMAIN il.requests |->
                                ApiRequest("get_org_policies", il.requests[k], st.file, i, il.raised)],
                   !.values = Append(@, new),
                   !.keys = Append(@, [file |-> st.file, row |-> i, key |-> issue_key,
                                       org |-> org_id])]

RECURSIVE EnrichRows(_, _, _, _)
EnrichRows(st, df, i, env) ==
    IF i > Len(df.rows) THEN st
    ELSE EnrichRows(EnrichRow(st, df, i, env), df, i + 1, env)

\* lines 172-173: `for col, values in additional_cols.items(): df[col] = values`
RECURSIVE AddColumns(_, _, _)
AddColumns(df, values, k) ==
    IF k > Len(additional_cols) THEN df
    ELSE AddColumns(SetColumn(df, additional_cols[k],
                              [i \in DOMAIN df.rows |-> values[i][k]]),
                    values, k + 1)

FileEvent(path, what) == [path |-> path, what |-> what]

\* a failure of read_csv or to_csv that leaves the call
OnFileError_Propagate(st, path, what) ==
    [st EXCEPT !.events = Append(@, FileEvent(path, what)), !.raised = TRUE]

\* lines 104-106 and 178-179: `except Exception` prints the failure of read_csv or
\* to_csv and the loop goes on with the next file
OnFileError(st, path, what) ==
    [st EXCEPT !.events = Append(@, FileEvent(path, what))]

\* lines 99-179: the body of `for file_path in files`
EnrichFile(st, path, env) ==
    IF ~IsCsvName(path) THEN [st EXCEPT !.events = Append(@, FileEvent(path, "skipped"))]
    ELSE IF path \notin DOMAIN st.fs \/ ~st.fs[path].readable
    THEN OnFileError(st, path, "read_failed")
    ELSE LET df == ReadCsv(st.fs[path].content)
             done == EnrichRows([st EXCEPT !.values = <<>>, !.file = path], df, 1, env)
             out == ToCsv(AddColumns(df, done.values, 1))
         IN  IF st.fs[path].writable
             THEN [done EXCEPT !.fs = [@ EXCEPT ![path].content = out],
                               !.events = Append(@, FileEvent(path, "rewritten"))]
             ELSE OnFileError(done, path, "write_failed")

\* SnykExportAPI.enrich_export_files(files)
RECURSIVE EnrichExportFiles(_, _, _)
EnrichExportFiles(st, files, env) ==
    IF files = <<>> \/ st.raised THEN st
    ELSE EnrichExportFiles(EnrichFile(st, Head(files), env), Tail(files), env)

----------------------------------------------------------------------------
(* Enricher specification: one call of enrich_export_files on files and    *)
(* answers drawn from bounded sets, on a fresh client                      *)

MaxRows == 2

UrlK1 == <<"https:", "/", "/", "app.snyk.io", "/", "issue-", "K1", "?", "tab">>

\* rows of an export with the four columns the enricher reads
IssueRows ==
    {<<o, p, u, k>> : o \in {EmptyCell, <<"org-A">>}, p \in {EmptyCell, <<"p1">>},
                      u \in {EmptyCell, UrlK1}, k \in {EmptyCell, <<"K2">>}}

IssueRowsMore ==
    { <<<<"org-A">>, <<"p1">>, UrlK1, <<"K2">>>>,
      <<EmptyCell, <<"p1">>, EmptyCell, EmptyCell>>,
      <<<<"org-A">>, <<"p2">>, <<"issue-", "/", "K1">>, <<"K1">>>> }

\* rows of an export without organization column and with a numeric column
UsageRows ==
    {<<<<"p1">>, k, n>> : k \in {EmptyCell, <<"K2">>}, n \in {EmptyCell, <<"007">>, <<"7">>}}

UsageRowsMore == { <<<<"p2">>, <<"K2">>, <<"7">>>>, <<<<"p1">>, EmptyCell, EmptyCell>> }

\* rows of an export that already has a column named IGNORE_REASON
EnrichedRows ==
    {<<<<"kept">>, p, u>> : p \in {EmptyCell, <<"p1">>}, u \in {UrlK1, <<"not-a-url">>}}

EnrichedRowsMore == { <<<<"kept">>, <<"p1">>, UrlK1>>, <<<<"old">>, EmptyCell, UrlK1>> }

\* the tables of at most MaxRows rows: a first row and rows of `more` after it
RECURSIVE RowSeqs(_, _, _)
RowSeqs(first, more, n) ==
    IF n = 0 THEN {<<>>}
    ELSE IF n = 1 THEN {<<r>> : r \in first}
    ELSE {Append(s, r) : s \in RowSeqs(first, more, n - 1), r \in more}

TablesOf(cols, first, more) ==
    {Table(cols, rows) : rows \in UNION {RowSeqs(first, more, n) : n \in 0..MaxRows}}

EnrichTables ==
    TablesOf(<<"ORG_PUBLIC_ID", "PROJECT_PUBLIC_ID", "ISSUE_URL", "PROBLEM_ID">>,
             IssueRows, IssueRowsMore)
      \cup TablesOf(<<"PROJECT_PUBLIC_ID", "PROBLEM_ID", "SCORE">>, UsageRows, UsageRowsMore)
      \cup TablesOf(<<"IGNORE_REASON", "PROJECT_PUBLIC_ID", "ISSUE_URL">>,
                    EnrichedRows, EnrichedRowsMore)

CsvA == <<"exports", "/", "a", ".", "csv">>
CsvUpper == <<"exports", "/", "b", ".", "CSV">>
CsvBad == <<"exports", "/", "bad", ".", "csv">>
CsvReadOnly == <<"exports", "/", "ro", ".", "csv">>
CsvMissing == <<"exports", "/", "missing", ".", "csv">>
JsonNotes == <<"exports", "/", "notes", ".", "json">>

FixedTable ==
    Table(<<"ORG_PUBLIC_ID", "PROJECT_PUBLIC_ID", "PROBLEM_ID">>,
          << <<<<"org-A">>, <<"p1">>, <<"K1">>>> >>)

\* the working directory around the artifact a.csv whose content is t
EnrichFs(t) ==
    [p \in {CsvA, CsvUpper, CsvBad, CsvReadOnly, JsonNotes} |->
        CASE p = CsvA -> File(TRUE, TRUE, t)
          [] p = CsvUpper -> File(TRUE, TRUE, FixedTable)
          [] p = CsvBad -> File(FALSE, TRUE, FixedTable)
          [] p = CsvReadOnly -> File(TRUE, FALSE, FixedTable)
          [] OTHER -> File(TRUE, TRUE, FixedTable)]

FileListInputs ==
    { <<CsvA>>, <<CsvMissing, CsvBad, CsvReadOnly, CsvA, JsonNotes, CsvUpper>> }

ProjectOk(p) == [kind |-> "ok", data |-> p]
ProjectFail(kind) == [kind |-> kind, data |-> NoProject]

FullProject == Project(<<"2020-01-01">>, <<"12">>, <<"high", ":", "1">>)
SparseProject == Project(<<"2021-05-05">>, Absent, Absent)

ProjectRespInputs ==
    {<<a, b>> : a \in {ProjectOk(FullProject), ProjectFail("http")},
                b \in {ProjectOk(FullProject), ProjectOk(SparseProject), ProjectFail("conn")}}

Policy(policy_type, created_at, reason, reason_type, notes, issues) ==
    [policy_type |-> policy_type, created_at |-> created_at, reason |-> reason,
     reason_type |-> reason_type, notes |-> notes, issues |-> issues]

PoliciesK1 ==
    << Policy("ignore", <<"2022-02-02">>, <<"accepted">>, <<"wont-fix">>, Absent,
              <<<<"K1">>, EmptyCell>>),
       Policy("severity-override", <<"2023-03-03">>, <<"other">>, <<"x">>, <<"n">>,
              <<<<"K2">>>>) >>

PolicyOk(policies) == [kind |-> "ok", data |-> policies]
PolicyFail(kind) == [kind |-> kind, data |-> <<>>]

PolicyRespInputs ==
    {<<a, b>> : a \in {PolicyOk(PoliciesK1), PolicyFail("http")},
                b \in {PolicyOk(PoliciesK1), PolicyFail("http")}}

EnrichCall(files, org, nan_identity, project_resps, policy_resps, files0) ==
    [fn |-> "enrich_export_files", files |-> files, self_org_id |-> org,
     nan_identity |-> nan_identity, project_resps |-> project_resps,
     policy_resps |-> policy_resps, fs |-> files0]

EnrichInit ==
    /\ FlowIdle
    /\ dl_out = NotCalled
    /\ project_cache = <<>> /\ policy_ignore_cache = <<>>
    /\ \/ \E t \in EnrichTables, l \in FileListInputs, o \in {None, <<"org-B">>},
             ni \in BOOLEAN, pr \in ProjectRespInputs, ir \in PolicyRespInputs :
             /\ dl_in = EnrichCall(l, o, ni, pr, ir, EnrichFs(t))
             /\ fs = EnrichFs(t)
       \/ dl_in = [fn |-> "lookups"] /\ fs = <<>>

CallEnrichExportFiles ==
    /\ dl_in.fn = "enrich_export_files"
    /\ ~dl_out.called
    /\ \E st \in {EnrichExportFiles(
                    EnrichState(project_cache, policy_ignore_cache, fs, <<>>, <<>>, <<>>),
                    dl_in.files, dl_in)} :
          /\ project_cache' = st.project_cache
          /\ policy_ignore_cache' = st.policy_ignore_cache
          /\ fs' = st.fs
          /\ dl_out' = [called |-> TRUE, raised |-> st.raised, requests |-> st.requests,
                        events |-> st.events, keys |-> st.keys]
    /\ UNCHANGED <<dl_in, flowVars>>

LookupCall(fn, key, before, r) ==
    [called |-> TRUE, fn |-> fn, key |-> key, before |-> before, raised |-> r.raised,
     data |-> r.data, requests |-> r.requests]

\* one call of get_project_v1 on the client, whatever it has cached so far
CallGetProjectV1 ==
    /\ dl_in.fn = "lookups"
    /\ \E org_id \in {<<"org-A">>}, project_id \in {<<"p1">>, <<"p2">>},
          resp \in {ProjectOk(FullProject), ProjectOk(SparseProject), ProjectFail("http")} :
       \E r \in {GetProjectV1(project_cache, org_id, project_id, resp)} :
          /\ project_cache' = r.cache
          /\ dl_out' = LookupCall("get_project_v1", <<org_id, project_id>>, project_cache, r)
    /\ UNCHANGED <<dl_in, flowVars, policy_ignore_cache, fs>>

\* one call of get_org_policies on the client
CallGetOrgPolicies ==
    /\ dl_in.fn = "lookups"
    /\ \E org_id \in {<<"org-A">>, <<"org-B">>},
          resp \in {PolicyOk(PoliciesK1), PolicyOk(<<>>), PolicyFail("http")} :
       \E r \in {GetOrgPolicies(policy_ignore_cache, org_id, resp)} :
          /\ policy_ignore_cache' = r.cache
          /\ dl_out' = LookupCall("get_org_policies", org_id, policy_ignore_cache, r)
    /\ UNCHANGED <<dl_in, flowVars, project_cache, fs>>

EnrichNext == CallEnrichExportFiles \/ CallGetProjectV1 \/ CallGetOrgPolicies

SpecEnrich == EnrichInit /\ [][EnrichNext]_vars

----------------------------------------------------------------------------
(* Artifact merger: combine_csv_files and combine_json_files               *)

\* pandas.read_csv(file) with the dtype of every column
ReadFrame(t) ==
    [cols |-> t.cols, dtypes |-> [j \in DOMAIN t.cols |-> Dtype(t, j)],
     rows |-> ReadCsv(t).rows]

\* the columns of the frames in the order of their first appearance
RECURSIVE UnionCols(_, _)
UnionCols(dfs, acc) ==
    IF dfs = <<>> THEN acc
    ELSE UnionCols(Tail(dfs),
                   acc \o SelectSeq(Head(dfs).cols, LAMBDA c : c \notin Range(acc)))

\* dtype of column c of pandas.concat(dfs): int64 survives only when every frame has an
\* int64 column c; numeric columns with a frame that lacks c, or with a float64
\* column, become float64; anything else is object
ConcatDtype(dfs, c) ==
    LET have == {k \in DOMAIN dfs : c \in Range(dfs[k].cols)}
        ds == {dfs[k].dtypes[IndexOf(dfs[k].cols, c)] : k \in have}
    IN  IF ds = {"int64"} /\ have = DOMAIN dfs THEN "int64"
        ELSE IF ds \subseteq {"int64", "float64"} THEN "float64"
        ELSE "object"

\* the value of column c in row i of frame df inside a concatenated column of dtype dt
ConcatCell(df, i, c, dt) ==
    LET j == IndexOf(df.cols, c)
    IN  IF j = 0 THEN NaN
        ELSE IF dt = "float64" /\ df.dtypes[j] = "int64" THEN Append(df.rows[i][j], ".0")
        ELSE df.rows[i][j]

RECURSIVE ConcatRows(_, _, _)
ConcatRows(dfs, cols, dts) ==
    IF dfs = <<>> THEN <<>>
    ELSE [i \in DOMAIN Head(dfs).rows |->
             [j \in DOMAIN cols |-> ConcatCell(Head(dfs), i, cols[j], dts[j])]]
         \o ConcatRows(Tail(dfs), cols, dts)

\* pd.concat(dfs, ignore_index=True)
Concat(dfs) ==
    LET cols == UnionCols(dfs, <<>>)
        dts == [j \in DOMAIN cols |-> ConcatDtype(dfs, cols[j])]
    IN  [cols |-> cols, dtypes |-> dts, rows |-> ConcatRows(dfs, cols, dts)]

\* the cells of row i in the columns `subset`
KeyOf(df, i, subset) == [k \in DOMAIN subset |-> df.rows[i][IndexOf(df.cols, subset[k])]]

\* keep='last': a row stays when no later row has its key
Keeps_Last(df, i, subset) ==
    \A j \in (i + 1)..Len(df.rows) : KeyOf(df, j, subset) # KeyOf(df, i, subset)

\* keep='first' with every missing key taken for a key of its own
Keeps_MissingDistinct(df, i, subset) ==
    \/ \E k \in DOMAIN subset : KeyOf(df, i, subset)[k] = NaN
    \/ \A j \in 1..(i - 1) : KeyOf(df, j, subset) # KeyOf(df, i, subset)

\* keep='first': a row stays when no earlier row has its key; missing values are one key
Keeps(df, i, subset) ==
    \A j \in 1..(i - 1) : KeyOf(df, j, subset) # KeyOf(df, i, subset)

RECURSIVE KeptRows(_, _, _)
KeptRows(df, i, subset) ==
    IF i > Len(df.rows) THEN <<>>
    ELSE (IF Keeps(df, i, subset) THEN <<df.rows[i]>> ELSE <<>>)
         \o KeptRows(df, i + 1, subset)

\* a frame whose duplicates are not dropped
DropDuplicates_None(df, subset) == df

\* DataFrame.drop_duplicates(subset=subset, keep='first')
DropDuplicates(df, subset) == [df EXCEPT !.rows = KeptRows(df, 1, subset)]

\* lines 1133-1136: by PROJECT_PUBLIC_ID when the combined frame has the column, by
\* the whole row otherwise
Deduplicate(df) ==
    IF "PROJECT_PUBLIC_ID" \in Range(df.cols)
    THEN DropDuplicates(df, <<"PROJECT_PUBLIC_ID">>)
    ELSE DropDuplicates(df, df.cols)

FileOp(op, path) == [op |-> op, path |-> path]

\* what the merger has gathered from its inputs: frames or JSON elements
Gathered(parts, trace) == [parts |-> parts, trace |-> trace]

\* lines 1112-1114, 1118-1120 and 1170-1172, 1180-1182: a missing or unparseable input
\* is reported and the loop goes on
SkipInput(acc, file, what) == [acc EXCEPT !.trace = Append(@, FileOp(what, file))]

\* lines 1111-1120: the loop over input_files of combine_csv_files
RECURSIVE GatherCsv(_, _, _)
GatherCsv(files0, input_files, acc) ==
    IF input_files = <<>> THEN acc
    ELSE LET file == Head(input_files)
         IN  GatherCsv(files0, Tail(input_files),
                 IF file \notin DOMAIN files0 THEN SkipInput(acc, file, "missing")
                 ELSE IF ~files0[file].readable THEN SkipInput(acc, file, "unparseable")
                 ELSE [acc EXCEPT !.parts = Append(@, ReadFrame(files0[file].content)),
                                  !.trace = Append(@, FileOp("read", file))])

\* the guard that never stops a merge without content
NothingToCombine_Never(parts) == FALSE

\* `if not dfs` (line 1122) and `if not combined` (line 1184)
NothingToCombine(parts) == parts = <<>>

MergeResult(returned, files, trace, combined) ==
    [returned |-> returned, fs |-> files, trace |-> trace, combined |-> combined]

NoFrame == [cols |-> <<>>, dtypes |-> <<>>, rows |-> <<>>]

\* open(output_file, 'w') fails on a file that cannot be written
CanWrite(files0, output_file) ==
    output_file \notin DOMAIN files0 \/ files0[output_file].writable

WriteContent(files0, path, content) ==
    [q \in (DOMAIN files0) \cup {path} |->
        IF q = path THEN File(TRUE, TRUE, content) ELSE files0[q]]

\* SnykExportAPI.combine_csv_files(input_files, output_file)
CombineCsvFiles(files0, input_files, output_file) ==
    LET g == GatherCsv(files0, input_files, Gathered(<<>>, <<>>))
        combined_df == Deduplicate(Concat(g.parts))
    IN  IF NothingToCombine(g.parts)
        THEN MergeResult(FALSE, files0, g.trace, NoFrame)
        ELSE IF Dirname(output_file) = <<>>
        THEN MergeResult(FALSE, files0, Append(g.trace, FileOp("makedirs_failed", <<>>)),
                         combined_df)
        ELSE IF ~CanWrite(files0, output_file)
        THEN MergeResult(FALSE, files0,
                         Append(g.trace, FileOp("write_failed", output_file)), combined_df)
        ELSE MergeResult(TRUE, WriteContent(files0, output_file, ToCsv(combined_df)),
                         Append(g.trace, FileOp("write", output_file)), combined_df)

\* JSON values: a list with its items, an object, or null
JList(items) == [json |-> "list", id |-> "", items |-> items]
JObject(id) == [json |-> "object", id |-> id, items |-> <<>>]
JNull == [json |-> "null", id |-> "", items |-> <<>>]

\* a top-level value that is always added as one element
Splice_Nested(combined, data) == Append(combined, data)

\* lines 1177-1180: `combined.extend(data)` for a list, `combined.append(data)` otherwise
Splice(combined, data) ==
    IF data.json = "list" THEN combined \o data.items ELSE Append(combined, data)

\* lines 1169-1182: the loop over input_files of combine_json_files
RECURSIVE GatherJson(_, _, _)
GatherJson(files0, input_files, acc) ==
    IF input_files = <<>> THEN acc
    ELSE LET file == Head(input_files)
         IN  GatherJson(files0, Tail(input_files),
                 IF file \notin DOMAIN files0 THEN SkipInput(acc, file, "missing")
                 ELSE IF ~files0[file].readable THEN SkipInput(acc, file, "unparseable")
                 ELSE [acc EXCEPT !.parts = Splice(@, files0[file].content),
                                  !.trace = Append(@, FileOp("read", file))])

\* SnykExportAPI.combine_json_files(input_files, output_file)
CombineJsonFiles(files0, input_files, output_file) ==
    LET g == GatherJson(files0, input_files, Gathered(<<>>, <<>>))
    IN  IF NothingToCombine(g.parts)
        THEN MergeResult(FALSE, files0, g.trace, g.parts)
        ELSE IF ~CanWrite(files0, output_file)
        THEN MergeResult(FALSE, files0,
                         Append(g.trace, FileOp("write_failed", output_file)), g.parts)
        ELSE MergeResult(TRUE, WriteContent(files0, output_file, JList(g.parts)),
                         Append(g.trace, FileOp("write", output_file)), g.parts)

----------------------------------------------------------------------------
(* Merger specification: one call of combine_csv_files or combine_json_files *)
(* on files drawn from bounded sets, and a second merge of the merged output *)

KeyedRows ==
    {<<k, n>> : k \in {<<"K7">>, <<"K8">>, EmptyCell}, n \in {<<"x">>, <<"y">>}}

KeyedRowsMore == { <<<<"K7">>, <<"z">>>>, <<<<"K9">>, <<"x">>>>, <<EmptyCell, <<"z">>>> }

\* rows of an artifact without the key column, the second column numeric
PlainRows == {<<<<"x">>, n>> : n \in {<<"7">>, <<"007">>, EmptyCell}}

PlainRowsMore == { <<<<"x">>, <<"7">>>>, <<<<"y">>, <<"7">>>> }

MergeTablesA ==
    TablesOf(<<"PROJECT_PUBLIC_ID", "NAME">>, KeyedRows, KeyedRowsMore)
      \cup TablesOf(<<"NAME", "SCORE">>, PlainRows, PlainRowsMore)

MergeTablesB ==
    { Table(<<"PROJECT_PUBLIC_ID", "NAME">>,
            << <<<<"K7">>, <<"b">>>>, <<<<"K9">>, <<"b">>>> >>),
      Table(<<"NAME", "SCORE">>, << <<<<"x">>, <<"7">>>>, <<<<"x">>, <<"7">>>> >>),
      Table(<<"SCORE", "PROJECT_PUBLIC_ID">>,
            << <<<<"007">>, <<"K8">>>>, <<EmptyCell, EmptyCell>> >>),
      Table(<<"PROJECT_PUBLIC_ID", "NAME">>, <<>>) }

MergeA == <<"exports", "/", "a", ".", "csv">>
MergeB == <<"exports", "/", "b", ".", "csv">>
MergeBad == <<"exports", "/", "bad", ".", "csv">>
MergeMissing == <<"exports", "/", "missing", ".", "csv">>
MergeOut == <<"exports", "/", "combined", ".", "csv">>
MergeOutAgain == <<"exports", "/", "combined2", ".", "csv">>
MergeBare == <<"combined", ".", "csv">>
MergeLocked == <<"exports", "/", "locked", ".", "csv">>

MergeFs(a, b) ==
    [p \in {MergeA, MergeB, MergeBad, MergeLocked} |->
        CASE p = MergeA -> File(TRUE, TRUE, a)
          [] p = MergeB -> File(TRUE, TRUE, b)
          [] p = MergeBad -> File(FALSE, TRUE, a)
          [] OTHER -> File(TRUE, FALSE, a)]

CsvInputLists ==
    { <<MergeA, MergeB>>, <<MergeB, MergeA>>, <<MergeA, MergeA>>, <<MergeA>>,
      <<MergeMissing, MergeA, MergeBad, MergeB>>, <<MergeBad, MergeMissing>>, <<>> }

CsvDestinations == {MergeOut, MergeBare, MergeLocked}

JsonOne == JObject("o1")
JsonTwo == JObject("o2")

JsonDocsX ==
    { JList(<<>>), JList(<<JsonOne>>), JList(<<JsonOne, JsonTwo>>), JObject("o3"), JNull,
      JList(<<JList(<<JsonOne>>), JNull>>) }

JsonDocsY == { JList(<<JsonTwo, JsonOne>>), JsonOne, JList(<<>>) }

JsonX == <<"exports", "/", "x", ".", "json">>
JsonY == <<"exports", "/", "y", ".", "json">>
JsonBad == <<"exports", "/", "bad", ".", "json">>
JsonMissing == <<"exports", "/", "missing", ".", "json">>
JsonOut == <<"exports", "/", "combined", ".", "json">>
JsonBare == <<"combined", ".", "json">>
JsonLocked == <<"exports", "/", "locked", ".", "json">>

JsonFs(x, y) ==
    [p \in {JsonX, JsonY, JsonBad, JsonLocked} |->
        CASE p = JsonX -> File(TRUE, TRUE, x)
          [] p = JsonY -> File(TRUE, TRUE, y)
          [] p = JsonBad -> File(FALSE, TRUE, x)
          [] OTHER -> File(TRUE, FALSE, x)]

JsonInputLists ==
    { <<JsonX, JsonY>>, <<JsonY, JsonX>>, <<JsonX, JsonX>>, <<JsonX>>,
      <<JsonMissing, JsonX, JsonBad, JsonY>>, <<JsonBad, JsonMissing>>, <<>> }

JsonDestinations == {JsonOut, JsonBare, JsonLocked}

MergerCall(format, files0) == [fn |-> "merge", format |-> format, fs |-> files0]

MergeInit ==
    /\ FlowIdle
    /\ project_cache = <<>> /\ policy_ignore_cache = <<>>
    /\ dl_out = NotCalled
    /\ \/ \E a \in MergeTablesA, b \in MergeTablesB :
             fs = MergeFs(a, b) /\ dl_in = MergerCall("csv", fs)
       \/ \E x \in JsonDocsX, y \in JsonDocsY :
             fs = JsonFs(x, y) /\ dl_in = MergerCall("json", fs)

\* the record of a merger call: its arguments, the files before it, what it returned,
\* and for a second merge the input list of the first
Merged(fn, input_files, output_file, before, r, again, origin) ==
    [called |-> TRUE, fn |-> fn, input_files |-> input_files, output_file |-> output_file,
     before |-> before, returned |-> r.returned, trace |-> r.trace,
     combined |-> r.combined, again |-> again, origin |-> origin]

CallCombineCsvFiles ==
    /\ dl_in.fn = "merge" /\ dl_in.format = "csv"
    /\ ~dl_out.called
    /\ \E input_files \in CsvInputLists, output_file \in CsvDestinations :
       \E r \in {CombineCsvFiles(fs, input_files, output_file)} :
          /\ fs' = r.fs
          /\ dl_out' = Merged("combine_csv_files", input_files, output_file, fs, r, FALSE,
                              input_files)
    /\ UNCHANGED <<dl_in, flowVars, project_cache, policy_ignore_cache>>

\* the merged output of the first call is merged again, on its own
CallCombineCsvFilesAgain ==
    /\ dl_in.fn = "merge"
    /\ dl_out.called /\ dl_out.fn = "combine_csv_files" /\ dl_out.returned /\ ~dl_out.again
    /\ \E r \in {CombineCsvFiles(fs, <<dl_out.output_file>>, MergeOutAgain)} :
          /\ fs' = r.fs
          /\ dl_out' = Merged("combine_csv_files", <<dl_out.output_file>>, MergeOutAgain,
                              fs, r, TRUE, dl_out.input_files)
    /\ UNCHANGED <<dl_in, flowVars, project_cache, policy_ignore_cache>>

CallCombineJsonFiles ==
    /\ dl_in.fn = "merge" /\ dl_in.format = "json"
    /\ ~dl_out.called
    /\ \E input_files \in JsonInputLists, output_file \in JsonDestinations :
       \E r \in {CombineJsonFiles(fs, input_files, output_file)} :
          /\ fs' = r.fs
          /\ dl_out' = Merged("combine_json_files", input_files, output_file, fs, r, FALSE,
                              input_files)
    /\ UNCHANGED <<dl_in, flowVars, project_cache, policy_ignore_cache>>

MergeNext == CallCombineCsvFiles \/ CallCombineCsvFilesAgain \/ CallCombineJsonFiles

SpecMerge == MergeInit /\ [][MergeNext]_vars

----------------------------------------------------------------------------
(* PROPERTIES                                                              *)

GroupCalled == dl_in.fn = "download_group_export" /\ dl_out.called
OrgCalled == dl_in.fn = "download_export" /\ dl_out.called

\* the explicit part URLs of the payload of the call, in payload order
ExplicitUrls == SelectSeq(dl_in.export_result.results, LAMBDA u : u # NoUrl)

\* base name and extension of the three output names of OutputFileInputs, spelled out
ExpectedName ==
    CASE dl_in.output_file = <<>> ->
           [base |-> <<"snyk_group_export_", "job-1", "_", "ts">>, ext |-> <<".", "csv">>]
      [] dl_in.output_file = <<"out">> -> [base |-> <<"out">>, ext |-> <<>>]
      [] OTHER -> [base |-> <<"snyk", ".", "group">>, ext |-> <<".", "csv">>]

ExpectedPartPath(K, N) ==
    <<"exports", "/", "ts", "/">> \o ExpectedName.base
        \o (IF N > 1 THEN <<"_part", ToString(K)>> ELSE <<>>) \o ExpectedName.ext

\* C5: download_group_export on a payload that lists N >= 1 explicit part URLs, when it
\* returns, has written exactly N files: the K-th URL (payload order) went to the base
\* name with "_partK" before the extension when N > 1, and to the unsuffixed name when
\* N = 1; a call that raises has written only files of that naming.
C5_PartFiles ==
    LET N == Len(ExplicitUrls)
        res == dl_out.res
    IN  (GroupCalled /\ N >= 1) =>
          /\ DOMAIN res.disk \subseteq {ExpectedPartPath(K, N) : K \in 1..N}
          /\ \A i \in DOMAIN res.requests :
                res.requests[i].endpoint = "primary" =>
                    res.requests[i].url = ExplicitUrls[res.requests[i].part]
          /\ ~res.raised =>
                /\ Len(res.saved_files) = N
                /\ \A K \in 1..N : res.saved_files[K] = ExpectedPartPath(K, N)
                /\ Cardinality(DOMAIN res.disk) = N
                /\ \A K \in 1..N : res.requests[K] = Request(K, "primary", ExplicitUrls[K])

C5_Witness ==
    /\ GroupCalled /\ ~dl_out.res.raised
    /\ Len(ExplicitUrls) > 1
    /\ Len(dl_in.export_result.results) > Len(ExplicitUrls)
    /\ dl_in.output_file = <<"dir", "/", "snyk", ".", "group", ".", "csv">>
    /\ Cardinality(DOMAIN dl_out.res.disk) = Len(ExplicitUrls)

\* C6: a download call that leaves a zero-byte file raises, and the zero-byte file is
\* not among its results (primary URL and jobs path of download_group_export, and
\* download_export).
C6_EmptyFileRaises ==
    (GroupCalled \/ OrgCalled) =>
        \A path \in DOMAIN dl_out.res.disk :
            dl_out.res.disk[path] = 0 =>
                /\ dl_out.res.raised
                /\ GroupCalled =>
                      \A i \in DOMAIN dl_out.res.saved_files : dl_out.res.saved_files[i] # path
                /\ OrgCalled => ~dl_out.res.returned

C6_Witness ==
    /\ GroupCalled /\ dl_out.res.raised /\ dl_out.res.error = "ValueError"
    /\ Len(dl_out.res.requests) = 2 /\ dl_out.res.requests[2].endpoint = "legacy"
    /\ dl_in.legacy = OkResp(0)
    /\ \E path \in DOMAIN dl_out.res.disk : dl_out.res.disk[path] = 0

\* the requests of the call that concern part k, in the order they were issued
RequestsOfPart(k) == SelectSeq(dl_out.res.requests, LAMBDA r : r.part = k)

\* C8: in download_group_export an HTTP failure of a part's download is followed by
\* exactly one request to the jobs download path when there is one result location, and
\* by none (the error is raised) when there are several; the jobs request, when made,
\* is the last request of the call.
C8_OneLegacyFallback ==
    LET res == dl_out.res
        N == Len(ResultUrls(dl_in.export_result))
    IN  (GroupCalled /\ res.requests # <<>>) =>
          \A k \in 1..N :
            LET mine == RequestsOfPart(k)
                legacies == SelectSeq(mine, LAMBDA r : r.endpoint = "legacy")
            IN  /\ Len(SelectSeq(mine, LAMBDA r : r.endpoint = "primary")) <= 1
                /\ (mine # <<>> /\ dl_in.resps[k].kind = "http" /\ N = 1) =>
                      /\ Len(legacies) = 1
                      /\ res.requests[Len(res.requests)]
                            = Request(k, "legacy", GroupJobsDownloadEndpoint)
                /\ (mine # <<>> /\ dl_in.resps[k].kind = "http" /\ N > 1) =>
                      /\ legacies = <<>>
                      /\ res.raised /\ res.error = "HTTPError"
                      /\ res.requests[Len(res.requests)].part = k
                /\ (mine # <<>> /\ dl_in.resps[k].kind # "http") => legacies = <<>>

C8_Witness ==
    /\ GroupCalled
    /\ Len(ResultUrls(dl_in.export_result)) = 1
    /\ dl_in.resps[1].kind = "http"
    /\ dl_out.res.requests = <<Request(1, "primary", PartUrl(1)),
                               Request(1, "legacy", GroupJobsDownloadEndpoint)>>
    /\ ~dl_out.res.raised

\* the attempt at which the retry loop must end: the first attempt answered 2xx with a
\* complete body, or the third
FinalAttempt ==
    IF \E k \in 1..3 : dl_in.resps[k].kind = "ok"
    THEN CHOOSE k \in 1..3 : /\ dl_in.resps[k].kind = "ok"
                             /\ \A j \in 1..(k - 1) : dl_in.resps[j].kind # "ok"
    ELSE 3

\* C9: download_export makes at most 3 attempts and stops at the first successful one;
\* it waits 5 seconds after each failed attempt that is followed by another one and
\* never after the last; after a third failed attempt it raises the error of that
\* attempt.
C9_BoundedRetry ==
    LET res == dl_out.res
        gets == SelectSeq(res.trace, LAMBDA e : e.ev = "get")
    IN  (OrgCalled /\ res.trace # <<>>) =>
          /\ Len(gets) = FinalAttempt /\ Len(gets) <= 3
          /\ Len(res.trace) = 2 * FinalAttempt - 1
          /\ \A i \in DOMAIN res.trace :
                IF i % 2 = 1
                THEN res.trace[i].ev = "get" /\ res.trace[i].attempt = (i + 1) \div 2
                ELSE res.trace[i] = SleepEvent(i \div 2, 5)
          /\ res.returned <=> (dl_in.resps[FinalAttempt] = OkResp(1))
          /\ res.returned => ~res.raised
          /\ (~res.returned) => (res.raised /\ res.error.attempt = FinalAttempt)
          /\ (dl_in.resps[FinalAttempt].kind = "http") =>
                (res.raised /\ res.error.type = "RequestException" /\ res.error.attempt = 3)

C9_Witness ==
    /\ OrgCalled /\ dl_out.res.raised
    /\ \A k \in 1..3 : dl_in.resps[k].kind \in {"http", "conn"}
    /\ dl_out.res.error.attempt = 3
    /\ Len(dl_out.res.trace) = 5

\* C10 (as claimed): when the primary download endpoint of download_export answers 404
\* or 400, the legacy report download path is requested before the call fails.
C10_LegacyRequestedBeforeFailure ==
    (/\ OrgCalled /\ dl_out.res.raised /\ dl_out.res.trace # <<>>
     /\ dl_in.export_result.download_url = NoDownloadUrl
     /\ \E k \in 1..3 : dl_in.resps[k].kind = "http" /\ dl_in.resps[k].code \in {404, 400}
     /\ \A k \in 1..3 : dl_in.resps[k].kind = "http")
        => \E i \in DOMAIN dl_out.res.trace :
              dl_out.res.trace[i].url = OrgLegacyDownloadEndpoint


----------------------------------------------------------------------------
(* Status classification and the poll loops                                *)

TerminalSuccess == {s_finished, s_complete}
TerminalFailure == {s_failed, s_cancelled}

\* the last poll of the current job obtained a status payload
StatusObserved == job.called /\ job.polls >= 1 /\ job.had_data

\* C1: in every polling loop a polled status equal to 'finished' or 'complete' in any
\* letter case ends polling as terminal-success, 'failed' or 'cancelled' in any letter
\* case ends it as terminal-failure, and every other status leaves the job non-terminal
\* (another poll, or the timeout).
C1_StatusClassification ==
    StatusObserved =>
        /\ Lower(job.raw) \in TerminalSuccess => job.verdict = "success"
        /\ Lower(job.raw) \in TerminalFailure => job.verdict = "failure"
        /\ Lower(job.raw) \notin (TerminalSuccess \cup TerminalFailure) =>
              job.verdict \in {"again", "timeout"}

\* C2: after the poll loop of start_group_export_workflow, export_for_org or
\* run_export.main has observed a terminal status of a job, no further status request
\* is issued for that job.
C2_ReturnsOnFirstTerminal ==
    [][(/\ wf \in {"group_workflow", "export_for_org", "main_group"}
        /\ StatusObserved
        /\ Lower(job.raw) \in (TerminalSuccess \cup TerminalFailure))
          => job'.polls # job.polls + 1]_vars

StatusCalled == dl_in.fn \in {"get_group_export_status", "get_export_status"} /\ dl_out.called

\* C3 as stated, for both status queries: an HTTP error of the primary request is
\* followed by exactly one legacy request, and when the legacy request fails too the
\* query returns the status 'started' instead of raising.
C3_LegacyThenStarted ==
    (StatusCalled /\ dl_out.res.requests # <<>> /\ dl_in.primary.kind = "http") =>
        /\ dl_out.res.requests = <<"primary", "legacy">>
        /\ dl_in.legacy.kind = "http" =>
              /\ ~dl_out.res.raised
              /\ dl_out.res.data.attr_status = s_started

\* C3 (amended): get_group_export_status asks the legacy path exactly once after any
\* HTTP error of the primary request and returns the status 'started' without raising
\* when the legacy request fails with an HTTP error too; get_export_status asks the
\* legacy path exactly once only after a primary 404 or 400, asks nothing more after any
\* other HTTP error, and raises whenever the request it made last failed.
C3_StatusFallback ==
    (StatusCalled /\ dl_out.res.requests # <<>> /\ dl_in.primary.kind = "http") =>
        IF dl_in.fn = "get_group_export_status"
        THEN /\ dl_out.res.requests = <<"primary", "legacy">>
             /\ dl_in.legacy.kind = "http" =>
                   /\ ~dl_out.res.raised /\ dl_out.res.synthesized
                   /\ dl_out.res.data.has_data
                   /\ dl_out.res.data.attr_status = s_started
        ELSE /\ dl_in.primary.code \in {404, 400} =>
                   /\ dl_out.res.requests = <<"primary", "legacy">>
                   /\ dl_in.legacy.kind # "ok" =>
                         dl_out.res.raised /\ dl_out.res.error = "RequestException"
             /\ dl_in.primary.code \notin {404, 400} =>
                   /\ dl_out.res.requests = <<"primary">>
                   /\ dl_out.res.raised /\ dl_out.res.error = "RequestException"
             /\ ~dl_out.res.synthesized

C3_Witness ==
    /\ StatusCalled /\ dl_in.fn = "get_group_export_status"
    /\ dl_in.primary = StatusHttp(500) /\ dl_in.legacy = StatusHttp(404)
    /\ dl_out.res.requests = <<"primary", "legacy">>
    /\ ~dl_out.res.raised /\ dl_out.res.data.attr_status = s_started

\* C4: the poll loop of start_group_export_workflow makes at most 60 polls per dataset,
\* whatever the status endpoints answer, and it reports a timeout exactly when the
\* 60th poll, like the 59 before it, yielded a non-terminal status.
C4_PollBound ==
    (wf = "group_workflow" /\ job.called) =>
        /\ job.polls <= 60
        /\ job.verdict = "again" => (job.polls < 60 /\ pc \in {"poll", "interrupted"})
        /\ job.verdict = "timeout" <=>
              /\ job.polls = 60
              /\ StatusObserved
              /\ Lower(job.raw) \notin (TerminalSuccess \cup TerminalFailure)

C4_Witness ==
    /\ wf = "group_workflow" /\ job.called /\ job.polls = 60
    /\ lastQuery.synthesized /\ lastQuery.requests = 2
    /\ job.verdict = "timeout" /\ outcomes # <<>>
    /\ outcomes[Len(outcomes)] = "timeout"

\* the files of downloaded_files that belong to dataset ds (the data set is part of
\* the file name the orchestrator asks for)
CollectedOf(ds) == SelectSeq(downloaded_files, LAMBDA f : \E j \in DOMAIN f : f[j] = ds)

HasPartSuffix(f, k) ==
    \E j \in 1..(Len(f) - 1) : f[j] = "_part" /\ f[j + 1] = ToString(k)

\* C7: download_group_export either raises or returns exactly one local path per result
\* location, in the order of the result locations; when it raises, the orchestrator
\* collects no artifact of that job.
C7_AllPartsOrRaise ==
    (lastDownload.called /\ lastDownload.fn = "download_group_export") =>
        LET N == Len(lastDownload.urls)
            files == lastDownload.files
        IN  /\ lastDownload.raised \/ Len(files) = N
            /\ ~lastDownload.raised =>
                  /\ \A k \in 1..N : N > 1 => HasPartSuffix(files[k], k)
                  /\ \A k \in 1..N :
                        \E i \in DOMAIN lastDownload.requests :
                            /\ lastDownload.requests[i].part = k
                            /\ lastDownload.requests[i].url = lastDownload.urls[k]
                  /\ pc # "interrupted" => CollectedOf(lastDownload.dataset) = files
            /\ lastDownload.raised => CollectedOf(lastDownload.dataset) = <<>>

C7_Witness ==
    /\ lastDownload.called /\ lastDownload.fn = "download_group_export"
    /\ lastDownload.raised /\ Len(lastDownload.urls) = 2
    /\ Len(lastDownload.requests) = 2
    /\ Cardinality(DOMAIN disk) >= 1
    /\ CollectedOf(lastDownload.dataset) = <<>>
    /\ outcomes # <<>> /\ outcomes[Len(outcomes)] = "download_error"


----------------------------------------------------------------------------
(* Readiness of a payload for the retrievers                               *)

RetrieverCalled == GroupCalled \/ OrgCalled

\* the network requests of the retriever call, whichever retriever it is
RetrieverRequests == IF GroupCalled THEN dl_out.res.requests ELSE dl_out.res.trace

\* the payload names the job, and download_export can tell the organization
IdsPresent ==
    /\ dl_in.export_result.id # ""
    /\ OrgCalled => (dl_in.export_result.rel_org # "" \/ dl_in.self_org_id # "")

\* C11: download_group_export and download_export accept a status payload exactly when
\* its status is 'finished' or 'complete' in any letter case: for any other status they
\* raise with no network request made and nothing written, and for these two statuses
\* (identifiers present) they go on to request the download.
C11_ReadinessAlias ==
    (RetrieverCalled /\ dl_in.export_result.has_data) =>
        LET st == Lower(Get(dl_in.export_result.attr_status, s_empty))
        IN  /\ st \notin {s_finished, s_complete} =>
                  /\ dl_out.res.raised
                  /\ RetrieverRequests = <<>>
                  /\ dl_out.res.disk = NoFiles
            /\ (st \in {s_finished, s_complete} /\ IdsPresent) => RetrieverRequests # <<>>


----------------------------------------------------------------------------
(* Enrichment                                                              *)

EnrichCalled == dl_in.fn = "enrich_export_files" /\ dl_out.called

\* the artifacts that the call rewrote
Rewritten == {dl_out.events[k].path : k \in {i \in DOMAIN dl_out.events :
                                                dl_out.events[i].what = "rewritten"}}

SevenColumns ==
    <<"PROJECT_CREATED_AT", "PROJECT_TOTAL_DEPENDENCIES", "PROJECT_SEVERITY_COUNTS",
      "IGNORE_REASON", "IGNORE_REASON_TYPE", "IGNORE_NOTES", "IGNORED_SINCE">>

\* C12: every CSV artifact that enrich_export_files rewrites has the rows of the input
\* in the same number and order, every original column with its original values, and
\* the seven enrichment columns appended after the original ones.
C12_EnrichPreserves ==
    EnrichCalled =>
        \A path \in Rewritten :
            LET inp == dl_in.fs[path].content
                out == fs[path].content
            IN  /\ Len(out.rows) = Len(inp.rows)
                /\ out.cols = inp.cols \o SevenColumns
                /\ \A i \in DOMAIN inp.rows : \A j \in DOMAIN inp.cols :
                       out.rows[i][j] = inp.rows[i][j]


ColumnIndex(t, col) == CHOOSE j \in DOMAIN t.cols : t.cols[j] = col

\* the requests of the call sent for row i of the file, to endpoint fn, that failed
FailedFor(path, i, fn) ==
    {k \in DOMAIN dl_out.requests :
        /\ dl_out.requests[k].file = path /\ dl_out.requests[k].row = i
        /\ dl_out.requests[k].fn = fn /\ dl_out.requests[k].failed}

ProjectColumns == {"PROJECT_CREATED_AT", "PROJECT_TOTAL_DEPENDENCIES", "PROJECT_SEVERITY_COUNTS"}
IgnoreColumns == {"IGNORE_REASON", "IGNORE_REASON_TYPE", "IGNORE_NOTES", "IGNORED_SINCE"}

\* the row names an organization and a project in its own cells
NamesProject(t, i) ==
    /\ \E j \in DOMAIN t.cols : t.cols[j] = "ORG_PUBLIC_ID" /\ t.rows[i][j] # EmptyCell
    /\ \E j \in DOMAIN t.cols : t.cols[j] = "PROJECT_PUBLIC_ID" /\ t.rows[i][j] # EmptyCell

\* C13: the call never raises; in every artifact it rewrites, every record has exactly
\* one value in each of the seven new columns; a record whose project lookup (policy
\* lookup) failed has its three project fields (four ignore fields) blank; and the
\* records after it are still looked up: a record that names its organization and its
\* project has a blank PROJECT_CREATED_AT only when its own lookup failed.
C13_LookupFailureBlank ==
    EnrichCalled =>
        /\ ~dl_out.raised
        /\ \A path \in Rewritten :
             LET inp == dl_in.fs[path].content
                 out == fs[path].content
             IN  /\ Len(out.rows) = Len(inp.rows)
                 /\ \A c \in ProjectColumns \cup IgnoreColumns :
                       Cardinality({j \in DOMAIN out.cols : out.cols[j] = c}) = 1
                 /\ \A i \in DOMAIN out.rows :
                       /\ Len(out.rows[i]) = Len(out.cols)
                       /\ FailedFor(path, i, "get_project_v1") # {} =>
                             \A c \in ProjectColumns :
                                 out.rows[i][ColumnIndex(out, c)] = EmptyCell
                       /\ FailedFor(path, i, "get_org_policies") # {} =>
                             \A c \in IgnoreColumns :
                                 out.rows[i][ColumnIndex(out, c)] = EmptyCell
                       /\ NamesProject(inp, i) =>
                             (out.rows[i][ColumnIndex(out, "PROJECT_CREATED_AT")] = EmptyCell
                                <=> FailedFor(path, i, "get_project_v1") # {})

\* the project lookup of the first record of a.csv fails, the second record is still
\* looked up and filled in, and the artifact is rewritten
C13_Witness ==
    /\ EnrichCalled /\ CsvA \in Rewritten
    /\ Len(fs[CsvA].content.rows) = 2
    /\ FailedFor(CsvA, 1, "get_project_v1") # {}
    /\ FailedFor(CsvA, 1, "get_org_policies") # {}
    /\ fs[CsvA].content.rows[1][ColumnIndex(fs[CsvA].content, "PROJECT_CREATED_AT")] = EmptyCell
    /\ fs[CsvA].content.rows[2][ColumnIndex(fs[CsvA].content, "PROJECT_CREATED_AT")] # EmptyCell


LookupCalled == dl_in.fn = "lookups" /\ dl_out.called

\* every entry of the cache c is an entry of the cache d, with the same value
Kept(c, d) == \A k \in DOMAIN c : k \in DOMAIN d /\ d[k] = c[k]

\* C14: in the project cache and in the ignore-policy cache of a client an entry, once
\* populated, is never removed or replaced, and a lookup of a key that is cached
\* returns the cached value without a network request.
C14_CacheStable ==
    /\ [][Kept(project_cache, project_cache')
             /\ Kept(policy_ignore_cache, policy_ignore_cache')]_vars
    /\ [](LookupCalled =>
            (dl_out.key \in DOMAIN dl_out.before =>
                /\ ~dl_out.raised
                /\ dl_out.requests = <<>>
                /\ dl_out.data = dl_out.before[dl_out.key]))

\* a second lookup of a cached project, with another project cached in between
C14_Witness ==
    /\ LookupCalled /\ dl_out.fn = "get_project_v1"
    /\ dl_out.key = <<<<"org-A">>, <<"p1">>>>
    /\ dl_out.key \in DOMAIN dl_out.before
    /\ Cardinality(DOMAIN project_cache) = 2
    /\ dl_out.requests = <<>> /\ dl_out.data = SparseProject
    /\ Cardinality(DOMAIN policy_ignore_cache) = 2


\* the listed CSV artifacts that cannot be read, and those that cannot be written
Unreadable ==
    {p \in Range(dl_in.files) :
        IsCsvName(p) /\ (p \notin DOMAIN dl_in.fs \/ ~dl_in.fs[p].readable)}
Unwritable ==
    {p \in Range(dl_in.files) \ Unreadable : IsCsvName(p) /\ ~dl_in.fs[p].writable}

EventsOf(p) == {dl_out.events[k].what : k \in {i \in DOMAIN dl_out.events :
                                                  dl_out.events[i].path = p}}

\* C15: when enrich_export_files is given a list of artifacts of which some cannot be
\* read or written, the call does not raise, each failing artifact is left as it was,
\* and every other CSV artifact of the list is read, enriched and rewritten.
C15_FileFailureIsolated ==
    (EnrichCalled /\ Unreadable \cup Unwritable # {}) =>
        /\ ~dl_out.raised
        /\ Len(dl_out.events) = Len(dl_in.files)
        /\ \A p \in Unreadable :
              /\ EventsOf(p) = {"read_failed"}
              /\ p \in DOMAIN fs <=> p \in DOMAIN dl_in.fs
              /\ p \in DOMAIN fs => fs[p] = dl_in.fs[p]
        /\ \A p \in Unwritable : EventsOf(p) = {"write_failed"} /\ fs[p] = dl_in.fs[p]
        /\ \A p \in Range(dl_in.files) \ (Unreadable \cup Unwritable) :
              IsCsvName(p) =>
                 /\ EventsOf(p) = {"rewritten"}
                 /\ Range(SevenColumns) \subseteq Range(fs[p].content.cols)
                 /\ Len(fs[p].content.rows) = Len(dl_in.fs[p].content.rows)
                 /\ fs[p].content # dl_in.fs[p].content

\* a list with a missing, an unreadable and a read-only artifact before two good ones
C15_Witness ==
    /\ EnrichCalled
    /\ Unreadable = {CsvMissing, CsvBad} /\ Unwritable = {CsvReadOnly}
    /\ {CsvA, CsvUpper} \subseteq Rewritten
    /\ Len(fs[CsvA].content.rows) = 2
    /\ \E k \in DOMAIN dl_out.requests : dl_out.requests[k].file = CsvReadOnly


CsvMerged == dl_in.fn = "merge" /\ dl_out.called /\ dl_out.fn = "combine_csv_files"

\* the inputs of the call that exist and parse, in the order of the list
UsableInputs ==
    SelectSeq(dl_out.input_files,
              LAMBDA f : f \in DOMAIN dl_out.before /\ dl_out.before[f].readable)

\* the rows of the usable inputs in input order: first file first, then earliest row
RECURSIVE RowRefs(_)
RowRefs(files) ==
    IF files = <<>> THEN <<>>
    ELSE [i \in DOMAIN dl_out.before[Head(files)].content.rows |-> <<Head(files), i>>]
         \o RowRefs(Tail(files))

InputRows == RowRefs(UsableInputs)

\* the cell of an input row in column col as the file has it, empty without the column
InputCell(ref, col) ==
    LET t == dl_out.before[ref[1]].content
    IN  IF IndexOf(t.cols, col) = 0 THEN EmptyCell ELSE t.rows[ref[2]][IndexOf(t.cols, col)]

InputKey(ref) == InputCell(ref, "PROJECT_PUBLIC_ID")

KeyInUnion ==
    \E k \in DOMAIN UsableInputs :
        "PROJECT_PUBLIC_ID" \in Range(dl_out.before[UsableInputs[k]].content.cols)

\* the positions of the input rows whose key no earlier input row has
FirstOccurrences ==
    SelectSeq([n \in DOMAIN InputRows |-> n],
              LAMBDA n : \A m \in 1..(n - 1) : InputKey(InputRows[m]) # InputKey(InputRows[n]))

\* a cell by value: numbers compare as numbers, whatever their spelling
Canon(c) ==
    IF IsIntCell(c) THEN <<IntCanon[c[1]]>>
    ELSE IF Len(c) = 2 /\ c[2] = ".0" THEN <<c[1]>>
    ELSE c

MergedOutput == fs[dl_out.output_file].content

\* row n of the merged output is the input row ref, column by column
SameRow(n, ref) ==
    \A j \in DOMAIN MergedOutput.cols :
        Canon(MergedOutput.rows[n][j]) = Canon(InputCell(ref, MergedOutput.cols[j]))

\* C16: when combine_csv_files writes its output and the key column PROJECT_PUBLIC_ID is
\* in the column union, the output holds exactly one row per distinct key of the inputs,
\* that row is the first occurrence in input order, and the row count is the number of
\* input rows minus the rows whose key was already seen.
C16_FirstSeenWins ==
    (CsvMerged /\ dl_out.returned /\ KeyInUnion) =>
        /\ Len(MergedOutput.rows) = Len(FirstOccurrences)
        /\ \A n \in DOMAIN MergedOutput.rows : SameRow(n, InputRows[FirstOccurrences[n]])
        /\ Len(MergedOutput.rows)
             = Len(InputRows)
                 - Cardinality({n \in DOMAIN InputRows :
                                   \E m \in 1..(n - 1) :
                                       InputKey(InputRows[m]) = InputKey(InputRows[n])})
        /\ \A k \in DOMAIN UsableInputs :
              Range(dl_out.before[UsableInputs[k]].content.cols)
                 \subseteq Range(MergedOutput.cols)

\* two files that both hold key K7 with different payloads: the first file's row stays
C16_Witness ==
    /\ CsvMerged /\ dl_out.returned /\ ~dl_out.again
    /\ dl_out.input_files = <<MergeA, MergeB>>
    /\ Len(InputRows) = 4
    /\ InputCell(<<MergeB, 1>>, "NAME") = <<"b">> /\ InputKey(<<MergeB, 1>>) = <<"K7">>
    /\ Len(MergedOutput.rows) = 2
    /\ MergedOutput.rows[1] = << <<"K7">>, <<"x">> >>
    /\ MergedOutput.rows[2] = << <<"K9">>, <<"x">> >>


TableA == dl_in.fs[MergeA].content

\* what the merger compares of row i of A: the key, or the whole row without key column
DedupKeyA(i) ==
    IF "PROJECT_PUBLIC_ID" \in Range(TableA.cols) THEN <<InputKey(<<MergeA, i>>)>>
    ELSE [j \in DOMAIN TableA.cols |-> Canon(ReadCsv(TableA).rows[i][j])]

DedupKeysA == {DedupKeyA(i) : i \in DOMAIN TableA.rows}

DeduplicatedA == Cardinality(DedupKeysA) = Len(TableA.rows)

\* the merged output has the columns and, by value, the rows of the table t
SameTable(t) ==
    /\ MergedOutput.cols = t.cols
    /\ Len(MergedOutput.rows) = Len(t.rows)
    /\ \A n \in DOMAIN t.rows : \A j \in DOMAIN t.cols :
          Canon(MergedOutput.rows[n][j]) = Canon(t.rows[n][j])

\* C17: merging a file with itself, the input list [A, A], yields exactly one row per
\* key of A, and exactly the rows of A in their order when A is already deduplicated;
\* merging the merged output again yields the same table.
C17_MergeIdempotent ==
    /\ (CsvMerged /\ dl_out.returned /\ ~dl_out.again
          /\ dl_out.input_files = <<MergeA, MergeA>>) =>
           /\ Len(MergedOutput.rows) = Cardinality(DedupKeysA)
           /\ \A k \in DedupKeysA :
                 \E n \in DOMAIN MergedOutput.rows :
                    \E i \in DOMAIN TableA.rows :
                       DedupKeyA(i) = k /\ SameRow(n, <<MergeA, i>>)
           /\ DeduplicatedA => SameTable(TableA)
    /\ (CsvMerged /\ dl_out.again) =>
           /\ dl_out.returned
           /\ SameTable(dl_out.before[dl_out.input_files[1]].content)

\* [A, A] with two keys in A merged into two rows, and the output merged again
C17_Witness ==
    /\ CsvMerged /\ dl_out.again /\ dl_out.returned
    /\ dl_out.origin = <<MergeA, MergeA>>
    /\ Len(TableA.rows) = 2 /\ DeduplicatedA
    /\ "PROJECT_PUBLIC_ID" \in Range(TableA.cols)
    /\ Len(MergedOutput.rows) = 2
    /\ SameTable(TableA)


MergerCalled == dl_in.fn = "merge" /\ dl_out.called

\* the positions of the trace at which the merger wrote a file
Writes == {k \in DOMAIN dl_out.trace : dl_out.trace[k].op = "write"}

\* C18: combine_csv_files and combine_json_files write the destination at most once,
\* after every input has been processed, and only when some input was usable; no other
\* file changes; a call that returns False, as every call without usable input does,
\* leaves the destination neither created nor modified.
C18_NoPartialOutput ==
    MergerCalled =>
        /\ Len(dl_out.trace) >= Len(dl_out.input_files)
        /\ \A k \in DOMAIN dl_out.input_files :
              /\ dl_out.trace[k].path = dl_out.input_files[k]
              /\ dl_out.trace[k].op \in {"read", "missing", "unparseable"}
        /\ Writes \subseteq {Len(dl_out.input_files) + 1}
        /\ fs # dl_out.before =>
              /\ Writes # {} /\ dl_out.returned /\ UsableInputs # <<>>
              /\ DOMAIN fs = DOMAIN dl_out.before \cup {dl_out.output_file}
              /\ \A p \in DOMAIN dl_out.before \ {dl_out.output_file} :
                    fs[p] = dl_out.before[p]
        /\ Writes # {} => dl_out.returned
        /\ ~dl_out.returned => fs = dl_out.before
        /\ UsableInputs = <<>> => ~dl_out.returned /\ fs = dl_out.before

\* a merge whose two inputs are a missing and an unparseable file: nothing is written
C18_Witness ==
    /\ MergerCalled /\ dl_out.fn = "combine_json_files"
    /\ dl_out.input_files = <<JsonBad, JsonMissing>>
    /\ dl_out.output_file = JsonOut
    /\ Len(dl_out.trace) = 2
    /\ ~dl_out.returned
    /\ JsonOut \notin DOMAIN fs


\* the inputs of the call that are missing or cannot be parsed
SkippedInputs ==
    {k \in DOMAIN dl_out.input_files :
        dl_out.trace[k].op \in {"missing", "unparseable"}}

\* the same merger on the files before the call
MergeOf(input_files) ==
    IF dl_out.fn = "combine_csv_files"
    THEN CombineCsvFiles(dl_out.before, input_files, dl_out.output_file)
    ELSE CombineJsonFiles(dl_out.before, input_files, dl_out.output_file)

\* an input with content to contribute: a table, or a JSON value other than the empty list
HasUsableContent ==
    \E k \in DOMAIN UsableInputs :
        dl_out.fn = "combine_json_files" =>
            dl_out.before[UsableInputs[k]].content # JList(<<>>)

\* C19: a missing or unparseable input of the merger is skipped: the call returns and
\* writes what the merge of the list without that input returns and writes, and with a
\* destination that can be written it returns True when a remaining input is usable.
C19_SkipUnusableInput ==
    (MergerCalled /\ SkippedInputs # {}) =>
        /\ MergeOf(UsableInputs).returned = dl_out.returned
        /\ MergeOf(UsableInputs).fs = fs
        /\ (HasUsableContent /\ CanWrite(dl_out.before, dl_out.output_file)) =>
              dl_out.returned


JsonMerged == dl_in.fn = "merge" /\ dl_out.called /\ dl_out.fn = "combine_json_files"

\* what an input contributes: the items of a list, or the value itself as one element
Contribution(file) ==
    LET data == dl_out.before[file].content
    IN  IF data.json = "list" THEN data.items ELSE <<data>>

RECURSIVE Contributions(_)
Contributions(files) ==
    IF files = <<>> THEN <<>> ELSE Contribution(Head(files)) \o Contributions(Tail(files))

RECURSIVE ExpectedLength(_)
ExpectedLength(files) ==
    IF files = <<>> THEN 0
    ELSE (IF dl_out.before[Head(files)].content.json = "list"
          THEN Len(dl_out.before[Head(files)].content.items) ELSE 1)
         + ExpectedLength(Tail(files))

\* C20: combine_json_files builds one sequence in input-file order, the items of a list
\* input spliced in and any other top-level value added as one element, so its length is
\* the sum of the list lengths plus the number of non-list inputs; a written output is
\* that sequence.
C20_JsonSplice ==
    JsonMerged =>
        /\ dl_out.combined = Contributions(UsableInputs)
        /\ Len(dl_out.combined) = ExpectedLength(UsableInputs)
        /\ dl_out.returned => fs[dl_out.output_file].content = JList(dl_out.combined)

\* a list of two objects followed by a single object: three elements in that order
C20_Witness ==
    /\ JsonMerged /\ dl_out.returned
    /\ dl_out.input_files = <<JsonX, JsonY>>
    /\ dl_out.before[JsonX].content = JList(<<JsonOne, JsonTwo>>)
    /\ dl_out.before[JsonY].content = JsonOne
    /\ fs[dl_out.output_file].content = JList(<<JsonOne, JsonTwo, JsonOne>>)


\* the dataset loop was left by an exception while datasets were still to be processed
LoopLeftEarly == pc = "aborted" /\ dsIdx < Len(datasets)

\* C21: in every orchestrator that iterates over datasets, the failure of one dataset
\* at any step never keeps the following datasets from being submitted: the dataset loop
\* is never left while datasets remain, and it ends with one outcome per dataset.
C21_DatasetFailureIsolated ==
    /\ ~LoopLeftEarly
    /\ pc \in {"finish", "done"} => Len(outcomes) = Len(datasets)


\* C22: once every dataset has been processed the orchestrator calls the merger exactly
\* once when more than one artifact resulted (unless run_export.py was started with
\* --combine no, or the artifacts are not of the merged format), and never when zero or
\* one artifact resulted.
C22_MergerOnce ==
    pc = "done" =>
        /\ Len(downloaded_files) <= 1 => merge_calls = <<>>
        /\ Len(downloaded_files) > 1 =>
              /\ Len(merge_calls) <= 1
              /\ wf = "group_workflow" => Len(merge_calls) = 1

\* the orchestrators of run_export.py and menu.py call the merger at most once, and only
\* with two artifacts or more
C22_ScriptsMergeOnce ==
    (pc = "done" /\ wf \in {"export_for_org", "main_group", "menu_group"}) =>
        /\ Len(merge_calls) <= 1
        /\ merge_calls # <<>> => Len(downloaded_files) > 1

C22_TwoMerges ==
    pc = "done" /\ wf = "group_workflow" /\ Len(downloaded_files) > 1 /\ Len(merge_calls) = 2

C22_MergeOfOne ==
    pc = "done" /\ wf = "group_workflow" /\ Len(downloaded_files) <= 1 /\ Len(merge_calls) = 1


\* C23: every artifact that an orchestrator collected, returns or passes to the merger
\* was handed to enrich_export_files after its download.
C23_ArtifactsEnriched ==
    /\ \A f \in Range(downloaded_files) : f \in enriched
    /\ \A k \in DOMAIN merge_calls :
          \A f \in Range(merge_calls[k].inputs) : f \in Range(downloaded_files) => f \in enriched

\* the two workflows of the client enrich every artifact they collect, unless the
\* run was interrupted, and only files that a finished download saved
C23_WorkflowsEnrich ==
    /\ (Enriches(wf) /\ pc # "interrupted") =>
          \A f \in Range(downloaded_files) : f \in enriched
    /\ \A f \in enriched : f \in DOMAIN disk /\ f \in Range(downloaded_files)

C23_Unenriched ==
    /\ pc = "done" /\ wf = "export_for_org"
    /\ downloaded_files # <<>> /\ enriched = {}
    /\ wf_return.files = downloaded_files


C25_MergeBestEffort ==
    /\ []((pc = "done" /\ wf = "group_workflow") =>
             /\ wf_return.called /\ wf_return.files = downloaded_files
             /\ \A k \in DOMAIN merge_calls :
                   merge_calls[k].output \notin Range(downloaded_files))
    /\ [][(pc = "finish" /\ pc' = "done" /\ wf = "group_workflow") =>
             /\ downloaded_files' = downloaded_files
             /\ \A f \in Range(downloaded_files) :
                   f \in DOMAIN disk' /\ disk'[f] = disk[f]]_vars

C25_Witness ==
    /\ pc = "done" /\ wf = "group_workflow"
    /\ Len(downloaded_files) = 2
    /\ Len(merge_calls) = 2
    /\ ~merge_calls[1].returned /\ merge_calls[2].returned
    /\ merge_calls[2].output \in DOMAIN disk
    /\ wf_return.files = downloaded_files


\* C26: the datasets are processed one after the other in list order: the requests of
\* a dataset are made only when every earlier dataset has its final outcome and the
\* dataset itself has none; a download is started only in the pass that observed a
\* terminal-success status of the job of that dataset; files are enriched only after
\* the download call returned all its parts.
C26_SequentialDatasets ==
    /\ [](/\ Len(outcomes) \in {dsIdx - 1, dsIdx}
          /\ pc \in {"submit", "poll"} => Len(outcomes) = dsIdx - 1
          /\ pc = "poll" => export_id = JobId(dsIdx)
          /\ lastDownload.called =>
                /\ job.verdict = "success" /\ StatusObserved
                /\ export_status \in TerminalSuccess
                /\ Len(outcomes) >= 1
                /\ lastDownload.dataset = datasets[Len(outcomes)])
    /\ [][/\ dsIdx' \in {dsIdx, dsIdx + 1}
          /\ dsIdx' = dsIdx + 1 => (Len(outcomes') = dsIdx /\ pc' = "submit")
          /\ \A k \in DOMAIN outcomes : outcomes'[k] = outcomes[k]
          /\ enriched' # enriched =>
                /\ ~lastDownload'.raised
                /\ enriched' = enriched \cup Range(lastDownload'.files)
                /\ IsGroupFlow(wf) => Len(lastDownload'.files) = Len(lastDownload'.urls)
                /\ \A f \in Range(lastDownload'.files) : f \in DOMAIN disk']_vars

C26_Witness ==
    /\ pc = "done" /\ wf = "group_workflow"
    /\ outcomes = <<"success", "success">>
    /\ Len(lastDownload.urls) = 2 /\ Len(lastDownload.files) = 2
    /\ Cardinality(enriched) >= 3
    /\ lastDownload.dataset = "usage"


\* C27: a job whose polled status is 'failed' or 'cancelled' is given up at once: the
\* pass that read the status ends the dataset as a failure, no download is made for the
\* job, no further status request and no second submit follow for that dataset, and the
\* orchestrator is at the submit of the next dataset or past the loop.
C27_FailureNotRetried ==
    /\ []((StatusObserved /\ Lower(job.raw) \in TerminalFailure) =>
             /\ job.verdict = "failure"
             /\ ~lastDownload.called
             /\ outcomes # <<>> /\ outcomes[Len(outcomes)] = "failure"
             /\ CollectedOf(datasets[Len(outcomes)]) = <<>>
             /\ \/ pc = "submit" /\ dsIdx = Len(outcomes) + 1
                \/ pc \in {"finish", "done"} /\ Len(outcomes) = Len(datasets))
    /\ [][(StatusObserved /\ Lower(job.raw) \in TerminalFailure) =>
             /\ job'.polls # job.polls + 1
             /\ job' # job => (job' = NewJob /\ Len(outcomes) < dsIdx)
             /\ lastDownload' # lastDownload => lastDownload' = NotCalled]_vars

C27_Witness ==
    /\ pc = "submit" /\ dsIdx = 2
    /\ wf \in {"group_workflow", "org_workflow", "export_for_org"}
    /\ StatusObserved /\ Lower(job.raw) \in TerminalFailure /\ job.raw \notin TerminalFailure
    /\ job.polls >= 2
    /\ outcomes = <<"failure">> /\ downloaded_files = <<>>


\* the identifiers a submit or status call needs: the group id, or the organization id
\* given with the call or configured on the client, and for a status call the job id
MissingIdentifier ==
    \/ dl_in.fn \in {"start_group_export", "get_group_export_status"} /\ dl_in.group_id = ""
    \/ dl_in.fn \in {"start_export", "get_export_status"}
          /\ dl_in.org_id = "" /\ dl_in.self_org_id = ""
    \/ dl_in.fn \in {"get_group_export_status", "get_export_status"} /\ dl_in.export_id = ""

SubmitOrStatusCalled ==
    /\ dl_out.called
    /\ dl_in.fn \in {"start_export", "get_export_status", "start_group_export",
                     "get_group_export_status"}

\* C28: a submit or status call with a missing organization id, group id or job id
\* raises before any network request is issued.
C28_MissingIdRaises ==
    (SubmitOrStatusCalled /\ MissingIdentifier) =>
        /\ dl_out.res.raised /\ dl_out.res.error = "ValueError"
        /\ dl_out.res.requests = <<>>

\* the same with the job id of get_export_status left out: the calls that lack an
\* organization id or a group id, and get_group_export_status without a job id, raise
\* before any request
C28_CheckedIdsRaise ==
    (SubmitOrStatusCalled /\ MissingIdentifier
        /\ ~(dl_in.fn = "get_export_status"
               /\ (dl_in.org_id # "" \/ dl_in.self_org_id # ""))) =>
        /\ dl_out.res.raised /\ dl_out.res.error = "ValueError"
        /\ dl_out.res.requests = <<>>

C28_RequestWithoutJobId ==
    /\ dl_out.called /\ dl_in.fn = "get_export_status"
    /\ dl_in.export_id = "" /\ dl_in.org_id # ""
    /\ dl_out.res.requests # <<>> /\ ~dl_out.res.raised


\* the issue keys that the call derived for the rows of a.csv, in row order
KeysOfCsvA == SelectSeq(dl_out.keys, LAMBDA k : k.file = CsvA)

\* the ISSUE_URL cell of row i of a.csv as written in the file, and the record's
\* PROBLEM_ID as the call reads it
UrlCellOfCsvA(i) == RowGet(dl_in.fs[CsvA].content, i, "ISSUE_URL")
ProblemIdOfCsvA(i) == RowGet(ReadCsv(dl_in.fs[CsvA].content), i, "PROBLEM_ID")

UrlMatches(u) == u # None /\ u # EmptyCell /\ IssueKeyMatch(u) # None

\* C29: the issue key of a record is the identifier captured by 'issue-<key>' in its
\* ISSUE_URL; when the pattern does not match or the URL cell is empty, the key is the
\* record's PROBLEM_ID.
C29_IssueKey ==
    EnrichCalled =>
        \A i \in DOMAIN KeysOfCsvA :
            KeysOfCsvA[i].key = IF UrlMatches(UrlCellOfCsvA(i))
                                THEN IssueKeyMatch(UrlCellOfCsvA(i))
                                ELSE ProblemIdOfCsvA(i)

\* the key is the captured identifier when the pattern matches, and PROBLEM_ID when the
\* export has no ISSUE_URL column
C29_KeyOfMatchOrNoColumn ==
    EnrichCalled =>
        \A i \in DOMAIN KeysOfCsvA :
            /\ KeysOfCsvA[i].row = i
            /\ UrlMatches(UrlCellOfCsvA(i)) =>
                  KeysOfCsvA[i].key = IssueKeyMatch(UrlCellOfCsvA(i))
            /\ UrlCellOfCsvA(i) = None => KeysOfCsvA[i].key = ProblemIdOfCsvA(i)

\* a URL without the pattern is taken whole as the key although PROBLEM_ID has a value
C29_UrlAsKey ==
    /\ EnrichCalled
    /\ \E i \in DOMAIN KeysOfCsvA :
          /\ UrlCellOfCsvA(i) = <<"issue-", "/", "K1">>
          /\ ProblemIdOfCsvA(i) = <<"K1">>
          /\ KeysOfCsvA[i].key = <<"issue-", "/", "K1">>

\* an empty URL cell gives the key 'nan' although PROBLEM_ID has a value
C29_NanAsKey ==
    /\ EnrichCalled
    /\ \E i \in DOMAIN KeysOfCsvA :
          /\ UrlCellOfCsvA(i) = EmptyCell
          /\ ProblemIdOfCsvA(i) = <<"K2">>
          /\ KeysOfCsvA[i].key = <<"nan">>


\* the positions of the requests sent to the policy-list endpoint of organization org
PolicyFetches(org) ==
    {k \in DOMAIN dl_out.requests :
        dl_out.requests[k].fn = "get_org_policies" /\ dl_out.requests[k].key = org}

PolicyOrgs ==
    {dl_out.requests[k].key : k \in {i \in DOMAIN dl_out.requests :
                                        dl_out.requests[i].fn = "get_org_policies"}}

\* C30: over an enrichment run at most one request is sent to the policy-list endpoint
\* of an organization, whatever the first request returned.
C30_PoliciesFetchedOnce ==
    EnrichCalled => \A org \in PolicyOrgs : Cardinality(PolicyFetches(org)) <= 1

\* no request follows an answered one: a policy list that was obtained is not fetched again
C30_NoFetchAfterSuccess ==
    EnrichCalled =>
        \A org \in PolicyOrgs : \A k \in PolicyFetches(org), j \in PolicyFetches(org) :
            k < j => dl_out.requests[k].failed

C30_RefetchAfterFailure ==
    /\ EnrichCalled
    /\ \E k \in PolicyFetches(<<"org-A">>), j \in PolicyFetches(<<"org-A">>) :
          /\ k < j /\ dl_out.requests[k].failed
          /\ dl_out.requests[k].file = CsvA /\ dl_out.requests[j].file = CsvA
          /\ dl_out.requests[k].row = 1 /\ dl_out.requests[j].row = 2


SubmitCalled(fn) == dl_out.called /\ dl_in.fn = fn

OrgIdGiven == dl_in.org_id # "" \/ dl_in.self_org_id # ""

\* C31: start_export sends exactly one submit to the legacy report path when the
\* primary submit answers 404 or 400, and the outcome of that submit is the outcome of
\* the call; on any other HTTP error of the primary submit it sends no legacy request
\* and raises; start_group_export never sends a legacy request.
C31_SubmitFallback ==
    /\ (SubmitCalled("start_export") /\ OrgIdGiven /\ dl_in.primary.kind = "http") =>
          IF dl_in.primary.code \in {404, 400}
          THEN /\ dl_out.res.requests = <<"primary", "legacy">>
               /\ dl_out.res.raised <=> dl_in.legacy.kind # "ok"
               /\ ~dl_out.res.raised => dl_out.res.data = dl_in.legacy.payload
          ELSE /\ dl_out.res.requests = <<"primary">>
               /\ dl_out.res.raised
    /\ (SubmitCalled("start_export") /\ OrgIdGiven /\ dl_in.primary.kind # "http") =>
          dl_out.res.requests = <<"primary">>
    /\ SubmitCalled("start_group_export") =>
          /\ \A k \in DOMAIN dl_out.res.requests : dl_out.res.requests[k] # "legacy"
          /\ Len(dl_out.res.requests) <= 1
          /\ dl_in.primary.kind = "http" => dl_out.res.raised

C31_Witness ==
    /\ SubmitCalled("start_export") /\ OrgIdGiven
    /\ dl_in.primary = StatusHttp(400) /\ dl_in.legacy = StatusHttp(500)
    /\ dl_out.res.requests = <<"primary", "legacy">> /\ dl_out.res.raised


\* the ORG_PUBLIC_ID cell of row i of a.csv as written in the file
OrgCellOfCsvA(i) == RowGet(dl_in.fs[CsvA].content, i, "ORG_PUBLIC_ID")

\* the organization id under which a request was sent
RequestOrg(r) == IF r.fn = "get_project_v1" THEN r.key[1] ELSE r.key

IsOrgId(v) == v \in {<<"org-A">>, <<"org-B">>}

\* C32: the effective organization id of a record is its ORG_PUBLIC_ID when the cell
\* holds a value and the default org id of the client otherwise (column absent or cell
\* empty), and no lookup is sent with an empty or missing organization id.
C32_EffectiveOrgId ==
    EnrichCalled =>
        /\ \A i \in DOMAIN KeysOfCsvA :
              KeysOfCsvA[i].org = IF OrgCellOfCsvA(i) \notin {None, EmptyCell}
                                  THEN OrgCellOfCsvA(i) ELSE dl_in.self_org_id
        /\ \A k \in DOMAIN dl_out.requests : IsOrgId(RequestOrg(dl_out.requests[k]))

\* a cell with a value is the organization id, an export without the column uses the
\* default, and without column and default no lookup is made for the record
C32_ValueOrNoColumn ==
    EnrichCalled =>
        /\ \A i \in DOMAIN KeysOfCsvA :
              /\ OrgCellOfCsvA(i) \notin {None, EmptyCell} =>
                    KeysOfCsvA[i].org = OrgCellOfCsvA(i)
              /\ OrgCellOfCsvA(i) = None => KeysOfCsvA[i].org = dl_in.self_org_id
        /\ \A k \in DOMAIN dl_out.requests :
              /\ RequestOrg(dl_out.requests[k]) \notin {None, EmptyCell}
              /\ (dl_out.requests[k].file = CsvA
                    /\ OrgCellOfCsvA(dl_out.requests[k].row) # EmptyCell) =>
                       IsOrgId(RequestOrg(dl_out.requests[k]))

\* an empty cell: the default is not used and a lookup goes out without organization id
C32_LookupWithoutOrg ==
    /\ EnrichCalled /\ dl_in.self_org_id = <<"org-B">>
    /\ \E i \in DOMAIN KeysOfCsvA :
          /\ OrgCellOfCsvA(i) = EmptyCell
          /\ KeysOfCsvA[i].org = NaN
          /\ \E k \in DOMAIN dl_out.requests :
                /\ dl_out.requests[k].file = CsvA /\ dl_out.requests[k].row = i
                /\ ~IsOrgId(RequestOrg(dl_out.requests[k]))


\* ---- C33 ----
\* the single-organization loops: start_export_workflow and run_export.export_for_org
IsOrgFlow(w) == w \in {"org_workflow", "export_for_org"}

NotReadyMessage == "Export is not ready for download"

\* C33: in the single-organization flows, download_export never raises "Export is not
\* ready for download" on a status payload that the poll loop has just classified as
\* complete.
C33_LoopAndDownloadAgree ==
    (IsOrgFlow(wf) /\ job.called /\ job.verdict = "success" /\ lastDownload.called)
        => lastDownload.message # NotReadyMessage

\* the loop found `complete` under data.status and download_export, which reads
\* data.attributes.status, refused the same payload before any request
C33_CompleteRefused ==
    /\ IsOrgFlow(wf) /\ job.called /\ job.verdict = "success"
    /\ Lower(Get(job.raw, s_unknown)) \in SuccessSet(wf)
    /\ lastDownload.called /\ lastDownload.raised /\ lastDownload.requests = <<>>
    /\ lastDownload.message = NotReadyMessage


\* ---- C34 ----
\* the frame that the first merger call concatenated from its readable inputs
ConcatOfCall ==
    Concat(GatherCsv(dl_out.before, dl_out.input_files, Gathered(<<>>, <<>>)).parts)

CsvMergeDone ==
    /\ dl_in.fn = "merge" /\ dl_out.called /\ dl_out.fn = "combine_csv_files"
    /\ ~dl_out.again
    /\ ~NothingToCombine(GatherCsv(dl_out.before, dl_out.input_files,
                                   Gathered(<<>>, <<>>)).parts)

KeyColumn == "PROJECT_PUBLIC_ID"

\* the rows of frame df without a value in the key column, in order
KeylessRows(df) ==
    SelectSeq(df.rows, LAMBDA r : r[IndexOf(df.cols, KeyColumn)] = NaN)

\* C34: when the union of the columns has PROJECT_PUBLIC_ID, combine_csv_files takes all
\* rows without a key value for one key: of the rows whose key cell is missing, those of
\* an input without the key column included, only the first in input order is in the
\* output.
C34_MissingKeysAreOneKey ==
    (CsvMergeDone /\ KeyColumn \in Range(ConcatOfCall.cols))
        => KeylessRows(dl_out.combined)
             = (IF KeylessRows(ConcatOfCall) = <<>> THEN <<>>
                ELSE <<Head(KeylessRows(ConcatOfCall))>>)

\* two inputs, the first without the key column and with two rows, the second with it:
\* one of the two keyless rows is in the output
C34_Witness ==
    /\ CsvMergeDone /\ dl_out.returned
    /\ Len(dl_out.input_files) = 2
    /\ KeyColumn \notin Range(ReadFrame(dl_out.before[dl_out.input_files[1]].content).cols)
    /\ KeyColumn \in Range(ConcatOfCall.cols)
    /\ Len(KeylessRows(ConcatOfCall)) >= 2
    /\ Len(KeylessRows(dl_out.combined)) = 1
    /\ Len(dl_out.combined.rows) >= 2


\* ---- C35 ----
\* an input of the call that exists and parses
HasReadableInput ==
    \E k \in DOMAIN dl_out.input_files :
        /\ dl_out.input_files[k] \in DOMAIN dl_out.before
        /\ dl_out.before[dl_out.input_files[k]].readable

\* the destinations that the callers of combine_csv_files pass: a path with a directory
\* part (snyk_export.py:535, 562; run_export.py; menu.py) or a bare file name (main.py)
CallerDestinations == {MergeOut, MergeOutAgain, MergeBare}

CsvMergeTo(dests) ==
    /\ dl_in.fn = "merge" /\ dl_out.called /\ dl_out.fn = "combine_csv_files"
    /\ dl_out.output_file \in dests

Written(path) ==
    /\ path \in DOMAIN fs
    /\ fs[path].content = ToCsv(dl_out.combined)

\* C35: combine_csv_files returns True and writes the destination whenever at least one
\* input file is readable, for every destination its callers pass, a bare file name
\* without directory included.
C35_MergeWritesDestination ==
    (CsvMergeTo(CallerDestinations) /\ HasReadableInput)
        => (dl_out.returned /\ Written(dl_out.output_file))

\* the same for the destinations that have a directory part
C35_WritesBesideDirectory ==
    (CsvMergeTo(CallerDestinations \ {MergeBare}) /\ HasReadableInput)
        => (dl_out.returned /\ Written(dl_out.output_file))

\* a readable input, a bare destination: False and no file
C35_BareDestinationFails ==
    /\ CsvMergeTo({MergeBare}) /\ HasReadableInput
    /\ ~dl_out.returned /\ MergeBare \notin DOMAIN fs
    /\ dl_out.trace[Len(dl_out.trace)].op = "makedirs_failed"


\* ---- C36 ----
\* the artifact format that each merge function combines
FormatOfMerger(fn) == IF fn = "combine_json_files" THEN "json" ELSE "csv"

\* the call is given artifacts of one format and is the merge of that format
UniformMerge(call) ==
    \A k \in DOMAIN call.inputs : EndsWith(call.inputs[k], FormatOfMerger(call.fn))

\* C36: every merger call of an orchestrator receives artifacts of one format and uses
\* the merge function of that format: the CSV merge is never applied to JSON artifacts,
\* nor the JSON merge to CSV artifacts, for either export format.
C36_MergeMatchesFormat ==
    pc = "done" => \A k \in DOMAIN merge_calls : UniformMerge(merge_calls[k])

\* the same for the orchestrators other than start_group_export_workflow
C36_ScriptsMatchFormat ==
    (pc = "done" /\ wf # "group_workflow")
        => \A k \in DOMAIN merge_calls :
              /\ UniformMerge(merge_calls[k])
              /\ FormatOfMerger(merge_calls[k].fn) = export_format

\* a JSON export of the group workflow: combine_csv_files is given the JSON artifacts
C36_CsvMergeOfJson ==
    /\ pc = "done" /\ wf = "group_workflow" /\ export_format = "json"
    /\ merge_calls # <<>>
    /\ merge_calls[1].fn = "combine_csv_files"
    /\ merge_calls[1].inputs = downloaded_files
    /\ \A k \in DOMAIN downloaded_files : EndsWith(downloaded_files[k], "json")

\* a JSON export merged by run_export with combine_json_files
C36_JsonMergeOfJson ==
    /\ pc = "done" /\ wf \in {"export_for_org", "main_group"} /\ export_format = "json"
    /\ Len(merge_calls) = 1 /\ merge_calls[1].fn = "combine_json_files"
    /\ UniformMerge(merge_calls[1])


\* ---- C37 ----
\* attempt k of the call is made and its response is saved as a zero-byte file
EmptyFileOnAttempt(k) ==
    /\ OrgCalled /\ dl_out.res.trace # <<>>
    /\ dl_in.resps[k] = OkResp(0)
    /\ \A j \in 1..(k - 1) : dl_in.resps[j].kind # "ok"

\* C37: in download_export an attempt that ends with a zero-byte file ends the retry
\* loop at once: the error is raised with no wait and no further attempt, whatever the
\* number of the attempt.
C37_EmptyFileEndsRetries ==
    \A k \in 1..max_retries :
        EmptyFileOnAttempt(k) =>
            LET res == dl_out.res
            IN  /\ res.raised /\ ~res.returned
                /\ res.error = [type |-> "ValueError", attempt |-> k, wrapped |-> FALSE]
                /\ Len(res.trace) = 2 * k - 1
                /\ res.trace[Len(res.trace)].ev = "get"
                /\ res.trace[Len(res.trace)].attempt = k
                /\ Len(SelectSeq(res.trace, LAMBDA e : e.ev = "get")) = k
                /\ Len(SelectSeq(res.trace, LAMBDA e : e.ev = "sleep")) = k - 1

\* the second attempt, made after a failed first one, saves an empty file while the
\* third would have succeeded
C37_Witness ==
    /\ EmptyFileOnAttempt(2)
    /\ dl_in.resps[3] = OkResp(1)
    /\ dl_out.res.raised /\ dl_out.res.error.attempt = 2
    /\ Len(dl_out.res.trace) = 3


\* ---- C38 ----
\* the loops bounded by the wall clock: export_for_org, the group loop of
\* run_export.main and menu.run_group_export_flow
WallClockLoop == ~AttemptCounted(wf) /\ job.called

\* the status of the last poll as the loop compares it
LastPolledStatus == Lower(Get(job.raw, s_unknown))

\* C38: in the wall-clock poll loops the timeout is tested only after the polled status
\* has been classified: a timeout is declared only after at least one poll and on a
\* status that is neither success nor failure, and a terminal-success status returned by
\* a poll that completes after the deadline is still downloaded.
C38_TimeoutAfterClassification ==
    WallClockLoop =>
        /\ (job.polls > 0 /\ LastPolledStatus \in SuccessSet(wf))
              => (job.verdict = "success" /\ lastDownload.called)
        /\ (job.polls > 0 /\ LastPolledStatus \in FailureSet(wf))
              => job.verdict = "failure"
        /\ job.verdict = "timeout"
              => /\ job.polls >= 1 /\ TimedOut(elapsed)
                 /\ LastPolledStatus \notin (SuccessSet(wf) \cup FailureSet(wf))
        /\ job.polls = 0 => job.verdict = "none"

\* the poll that reported success returned after the deadline, and its artifact was
\* downloaded
C38_Witness ==
    /\ WallClockLoop /\ wf = "export_for_org"
    /\ job.polls >= 2 /\ TimedOut(elapsed)
    /\ job.verdict = "success" /\ LastPolledStatus = s_complete
    /\ lastDownload.called /\ ~lastDownload.raised
    /\ outcomes # <<>> /\ outcomes[Len(outcomes)] = "success"
    /\ downloaded_files # <<>>


\* ---- C39 ----
\* the spellings of the extension that lower-case to "csv"
CsvSpellings == {"csv", "CSV", "Csv"}

\* the listed files of the call whose name does not end in ".csv" in any letter case
OtherListedFiles ==
    {dl_in.files[k] : k \in {j \in DOMAIN dl_in.files :
                                dl_in.files[j][Len(dl_in.files[j])] \notin CsvSpellings}}

\* C39: enrich_export_files leaves every listed file whose name does not end in ".csv"
\* (in any letter case) untouched: it is neither read nor rewritten, no project or
\* policy lookup is made and no row is processed on its behalf.
C39_OtherFilesUntouched ==
    EnrichCalled =>
        \A p \in OtherListedFiles :
            /\ p \in DOMAIN dl_in.fs => (p \in DOMAIN fs /\ fs[p] = dl_in.fs[p])
            /\ \A k \in DOMAIN dl_out.events :
                  dl_out.events[k].path = p => dl_out.events[k].what = "skipped"
            /\ \A k \in DOMAIN dl_out.requests : dl_out.requests[k].file # p
            /\ \A k \in DOMAIN dl_out.keys : dl_out.keys[k].file # p

\* a call that lists notes.json, which holds a table with an organization, a project and
\* an issue, between CSV artifacts: b.CSV is rewritten, notes.json is passed over
C39_Witness ==
    /\ EnrichCalled /\ JsonNotes \in OtherListedFiles
    /\ fs[JsonNotes] = File(TRUE, TRUE, FixedTable)
    /\ EventsOf(JsonNotes) = {"skipped"}
    /\ EventsOf(CsvUpper) = {"rewritten"}
    /\ fs[CsvUpper] # dl_in.fs[CsvUpper]
    /\ \E k \in DOMAIN dl_out.keys : dl_out.keys[k].file = CsvUpper

====
